---- MODULE Spec2Model ----
(***************************************************************************)
(* External plugin subsystem of rtx (src/plugins/external_plugin.rs).      *)
(*                                                                         *)
(* Plugin lifecycle: ensure_installed, install and uninstall, called by    *)
(* threads that share one plugin.  Every access to the file system, the    *)
(* prompt and the lock is one step.                                        *)
(*   Spec                 one thread calls, one call after the other,      *)
(*                        under every configuration; the events of each    *)
(*                        call (progress messages, git and script runs)    *)
(*                        are recorded in log                              *)
(*   SpecConcurrent       the threads call concurrently (no event record)  *)
(*   SpecEnsureInstalled  as SpecConcurrent, ensure_installed calls only   *)
(*   SpecEnsureInstalledFair  as SpecEnsureInstalled, with weak fairness   *)
(*                        of the steps of a thread at or behind the lock   *)
(* Per-tool-version install: install_version.                              *)
(*   SpecInstallVersion   calls of install_version                         *)
(* Operations of the plugin, each one step, its result and events in q:    *)
(*   SpecQueries          the four cached queries, the clock, changes of   *)
(*                        the plugin's files and a re-clone                *)
(*   SpecLegacyFile       parse_legacy_file and writes of the legacy file  *)
(*   SpecExecEnv          list_bin_paths and exec_env                      *)
(*   SpecOperations       every operation that runs a script               *)
(*   SpecScriptEnv        the environment composed for a version script    *)
(*   SpecListAll          list_remote_versions with bin/list-all running   *)
(*                        against the clock, under weak fairness of the    *)
(*                        clock and of the kill at the timeout             *)
(* The in-process cache of list_bin_paths and exec_env, used by threads:   *)
(*   SpecPerVersion       the threads call the two operations              *)
(* Commands (src/cli), their position and output in cmd:                   *)
(*   SpecLsRemote         ls-remote TOOL[@VERSION] [PREFIX]                *)
(*   SpecUninstallCommand uninstall of a list of tool-versions             *)
(*                                                                         *)
(* Strings that the code parses (repository URLs, script output, version   *)
(* prefixes) are sequences of one-character strings; Option<T> is a        *)
(* sequence of length 0 or 1.                                              *)
(* log, prev and calls are history variables: no step reads log or prev.   *)
(***************************************************************************)
EXTENDS Integers, Sequences, FiniteSets, TLC

\* ---------------------------------------------------------------- bounds
NThreads == 2
MaxCalls == 2
MaxExitCode == 2
MaxTime == 2
MaxOps == 2
MaxChanges == 1

Threads == 1..NThreads

\* ---------------------------------------------------------------- values
None == <<>>
Some(v) == <<v>>

\* self.repo_url (user override) and config.get_repo_url(name) (registry)
UserRepoUrls == {None, Some(<<"a">>), Some(<<"a", "#", "r">>)}
RegistryRepoUrls == {None, Some(<<"b">>), Some(<<"b", "#", "s">>)}

\* the scripts install looks for in a fresh clone
WarmScripts == {"list-all", "list-aliases", "list-legacy-filenames"}

\* the files of cache_path
CacheFiles == {"remote_versions", "latest_stable", "aliases", "legacy_filenames", "legacy_txt"}

\* what a script prints, and what a manifest holds as data: text
Stdout1 == <<"a", " ", "1", "\n", "b", "\n">>
Stdout2 == <<" ", "2", "\n">>
Stdouts == {Stdout1, Stdout2}
AliasData2 == <<"a", " ", "1", "\n", "a", " ", "2">>

\* rtx.plugin.toml, read at construction: list_aliases.data and
\* list_legacy_filenames.data, each optional
ManifestData == {None, Some(Stdout1)}
NoManifest == [list_aliases |-> None, list_legacy_filenames |-> None]

\* plugin_path: a directory that exists or not; when it exists, the scripts
\* under bin/ and the checked-out ref
AbsentPath == [exists |-> FALSE, scripts |-> {}, ref |-> None]
ClonedPath(scripts) == [exists |-> TRUE, scripts |-> scripts, ref |-> None]

\* progress / observable events of one call
Ev(kind) == [k |-> kind, a |-> <<>>, c |-> 0]
EvA(kind, arg) == [k |-> kind, a |-> arg, c |-> 0]
EvC(kind, arg, code) == [k |-> kind, a |-> arg, c |-> code]

VARIABLES
    plugin_path,    \* the clone on disk
    cache_dir,      \* the cache files that exist under cache_path
    installs_dir,   \* versions under installs_path
    downloads_dir,  \* versions under downloads_path
    lock,           \* holder of the file lock on plugin_path, 0 when free
    cfg,            \* repo_url, registry, settings.yes, manifest, remote repository
    pc, op, force, res, log, calls, prev, repo,   \* per thread
    call_tv,        \* per thread: the tool-version a per-version operation was called with
    iv,             \* one install_version call
    now,            \* the clock the file system stamps mtimes with
    mtime,          \* mtime of plugin_path and of the scripts the caches watch
    cache_meta,     \* mtime, stored value, decodability of the four cache files
    legacy,         \* the legacy file and its cache file
    memo,           \* the in-process per-version cache
    env,            \* the process environment (__RTX_SCRIPT)
    q,              \* the plugin operation called last: result, events
    cmd             \* a command of the CLI: arguments, position, output

fsVars == <<plugin_path, cache_dir, installs_dir, downloads_dir>>
thrVars == <<pc, op, force, res, log, calls, prev, repo, call_tv>>
diskVars == <<now, mtime, cache_meta, legacy>>
procVars == <<memo, env, q, cmd>>
vars == <<plugin_path, cache_dir, installs_dir, downloads_dir, lock, cfg,
          pc, op, force, res, log, calls, prev, repo, call_tv, iv,
          now, mtime, cache_meta, legacy, memo, env, q, cmd>>

\* ------------------------------------------------------- plugin lifecycle

\* Git::split_url_and_ref: "URL#REF" -> (URL, Some(REF)); no '#' -> (URL, None)
HashPositions(s) == {i \in 1..Len(s) : s[i] = "#"}
split_url_and_ref(s) ==
    IF HashPositions(s) = {}
    THEN [url |-> s, ref |-> None]
    ELSE LET i == CHOOSE x \in HashPositions(s) : \A y \in HashPositions(s) : x <= y
         IN  [url |-> SubSeq(s, 1, i - 1), ref |-> Some(SubSeq(s, i + 1, Len(s)))]

NoRepo == [url |-> <<>>, ref |-> None]
NoCall == [op |-> "none", res |-> "none"]

\* is_installed: plugin_path.exists()
is_installed == plugin_path.exists

\* get_repo_url: self.repo_url, or else the registry's, or else an error (None)
get_repo_url_registry_first ==
    IF cfg.registry # None THEN cfg.registry ELSE cfg.repo_url
get_repo_url ==
    IF cfg.repo_url # None THEN cfg.repo_url ELSE cfg.registry

\* has_*_script: the script file exists under plugin_path/bin
script_exists(s) == plugin_path.exists /\ s \in plugin_path.scripts
has_list_all_script == script_exists("list-all")
has_list_alias_script_always == TRUE
has_list_alias_script == script_exists("list-aliases")
has_list_legacy_filenames_script == script_exists("list-legacy-filenames")

\* ensure_installed, `if !force { if self.is_installed() { return Ok(()) } ...`
returns_already_installed_never(f) == FALSE
returns_already_installed_inverted(f) == ~f /\ ~is_installed
returns_already_installed(f) == ~f /\ is_installed

\* ensure_installed, `if !config.settings.yes && self.repo_url.is_none()`
must_confirm_any_url(f) == ~f /\ ~cfg.yes
must_confirm(f) == ~f /\ ~cfg.yes /\ cfg.repo_url = None

\* ensure_installed, `let _lock = ...`: the guard lives to the end of the call
lock_guard_dropped_at_once(t) == 0
lock_guard(t) == t

\* the lock guard is dropped when ensure_installed returns
lock_kept_on_return(t) == lock
Unlocked(t) == IF lock = t THEN 0 ELSE lock

\* install, `if self.is_installed() { self.uninstall(pr)?; }`
install_uninstalls_first_never == FALSE
install_uninstalls_first == is_installed

\* uninstall, `rmdir(&self.plugin_path)?`: the directories uninstall removes
rmdir_dirs_all == {"plugin_path", "cache_path", "installs_path", "downloads_path"}
rmdir_dirs_none == {}
rmdir_dirs == {"plugin_path"}

Return(t, r) ==
    /\ pc' = [pc EXCEPT ![t] = "idle"]
    /\ res' = [res EXCEPT ![t] = r]

Goto(t, l) ==
    /\ pc' = [pc EXCEPT ![t] = l]
    /\ UNCHANGED res

\* the events of a call are recorded when the configuration asks for the trace
Logged(t, evs) == log' = IF cfg.trace THEN [log EXCEPT ![t] = @ \o evs] ELSE log

\* a call starts: the thread is between calls
StartCall(t, o, f) ==
    /\ pc[t] = "idle"
    /\ t \in cfg.threads
    /\ calls < cfg.max_calls
    /\ calls' = calls + 1
    /\ pc' = [pc EXCEPT ![t] = o]
    /\ op' = [op EXCEPT ![t] = o]
    /\ force' = [force EXCEPT ![t] = f]
    /\ res' = [res EXCEPT ![t] = "none"]
    /\ log' = [log EXCEPT ![t] = <<>>]
    /\ prev' = IF cfg.trace THEN [prev EXCEPT ![t] = [op |-> op[t], res |-> res[t]]] ELSE prev
    /\ repo' = [repo EXCEPT ![t] = NoRepo]
    /\ UNCHANGED <<fsVars, lock, cfg, iv, diskVars, procVars, call_tv>>

\* a caller (ls-remote, install, plugins install) calls ensure_installed
call_ensure_installed(t, f) == StartCall(t, "ensure_installed", f)

\* ensure_installed up to the prompt
ensure_installed(t) ==
    /\ pc[t] = "ensure_installed"
    /\ IF returns_already_installed(force[t])
       THEN Return(t, "ok") /\ UNCHANGED log
       ELSE IF must_confirm(force[t])
            THEN IF get_repo_url = None
                 THEN Return(t, "NoRepoUrl") /\ UNCHANGED log
                 ELSE Goto(t, "confirm") /\ Logged(t, <<EvA("prompt", get_repo_url[1])>>)
            ELSE Goto(t, "lock") /\ UNCHANGED log
    /\ UNCHANGED <<fsVars, lock, cfg, iv, diskVars, procVars, op, force, calls, prev, repo, call_tv>>

\* prompt::confirm answers: yes, no, or the prompt fails
confirm(t, answer) ==
    /\ pc[t] = "confirm"
    /\ CASE answer = "yes" -> Goto(t, "lock")
         [] answer = "no" -> Return(t, "PluginNotInstalled")
         [] OTHER -> Return(t, "PromptError")
    /\ Logged(t, <<EvA("answer", <<answer>>)>>)
    /\ UNCHANGED <<fsVars, lock, cfg, iv, diskVars, procVars, op, force, calls, prev, repo, call_tv>>

\* get_lock(plugin_path, force): blocks while another holds the lock
get_lock(t) ==
    /\ pc[t] = "lock"
    /\ lock = 0
    /\ lock' = lock_guard(t)
    /\ Goto(t, "install")
    /\ Logged(t, <<Ev("locked")>>)
    /\ UNCHANGED <<fsVars, cfg, iv, diskVars, procVars, op, force, calls, prev, repo, call_tv>>

\* install: resolve the repository, and uninstall a previous clone first
install(t) ==
    /\ pc[t] = "install"
    /\ IF get_repo_url = None
       THEN /\ Return(t, "NoRepoUrl")
            /\ lock' = Unlocked(t)
            /\ UNCHANGED repo
       ELSE /\ repo' = [repo EXCEPT ![t] = split_url_and_ref(get_repo_url[1])]
            /\ Goto(t, IF install_uninstalls_first THEN "uninstall" ELSE "clone")
            /\ UNCHANGED lock
    /\ UNCHANGED <<fsVars, cfg, iv, diskVars, procVars, op, force, log, calls, prev, call_tv>>

\* `rtx plugins uninstall`: the command layer calls uninstall
call_uninstall(t) == StartCall(t, "uninstall", FALSE)

\* uninstall returns r to its caller: install (`?`) or the command layer
uninstall_returns(t, r) ==
    IF op[t] = "ensure_installed"
    THEN IF r = "ok"
         THEN Goto(t, "clone") /\ UNCHANGED lock
         ELSE Return(t, r) /\ lock' = Unlocked(t)
    ELSE Return(t, r) /\ UNCHANGED lock

\* uninstall: `if !self.is_installed() { return Ok(()) }`
uninstall(t) ==
    /\ pc[t] = "uninstall"
    /\ IF ~is_installed
       THEN uninstall_returns(t, "ok") /\ UNCHANGED log
       ELSE Goto(t, "rmdir") /\ Logged(t, <<Ev("uninstalling")>>) /\ UNCHANGED lock
    /\ UNCHANGED <<fsVars, cfg, iv, diskVars, procVars, op, force, calls, prev, repo, call_tv>>

\* uninstall: the rmdir closure on plugin_path; remove_all succeeds or fails
rmdir(t, removed) ==
    /\ pc[t] = "rmdir"
    /\ IF ~plugin_path.exists
       THEN /\ uninstall_returns(t, "ok")
            /\ UNCHANGED <<log, fsVars>>
       ELSE /\ Logged(t, <<Ev("removing"), EvA("remove_all", <<IF removed THEN "ok" ELSE "err">>)>>)
            /\ IF removed
               THEN /\ plugin_path' = IF "plugin_path" \in rmdir_dirs THEN AbsentPath ELSE plugin_path
                    /\ cache_dir' = IF "cache_path" \in rmdir_dirs THEN {} ELSE cache_dir
                    /\ installs_dir' = IF "installs_path" \in rmdir_dirs THEN {} ELSE installs_dir
                    /\ downloads_dir' = IF "downloads_path" \in rmdir_dirs THEN {} ELSE downloads_dir
                    /\ uninstall_returns(t, "ok")
               ELSE /\ UNCHANGED fsVars
                    /\ uninstall_returns(t, "RemoveFailed")
    /\ UNCHANGED <<cfg, iv, diskVars, procVars, op, force, calls, prev, repo, call_tv>>

\* Git::clone: fails when the target directory exists, and may fail otherwise
git_clone_succeeds(ok) == ok /\ ~plugin_path.exists

\* install: `git.clone(&repo_url)?`
git_clone(t, ok) ==
    /\ pc[t] = "clone"
    /\ Logged(t, <<EvA("cloning", repo[t].url),
                   EvA("git_clone", <<IF git_clone_succeeds(ok) THEN "ok" ELSE "err">>)>>)
    /\ IF git_clone_succeeds(ok)
       THEN /\ plugin_path' = ClonedPath(cfg.remote_scripts)
            /\ Goto(t, IF repo[t].ref # None THEN "checkout" ELSE "list_all")
            /\ UNCHANGED lock
       ELSE /\ Return(t, "GitFailure")
            /\ lock' = Unlocked(t)
            /\ UNCHANGED plugin_path
    /\ UNCHANGED <<cache_dir, installs_dir, downloads_dir, cfg, iv, diskVars, procVars, op, force, calls, prev, repo, call_tv>>

\* install: `if let Some(ref_) = &repo_ref { git.update(Some(ref_))? }`
git_checkout(t, ok) ==
    /\ pc[t] = "checkout"
    /\ Logged(t, <<EvA("checking out", repo[t].ref[1]),
                   EvA("git_update", <<IF ok /\ plugin_path.exists THEN "ok" ELSE "err">>)>>)
    /\ IF ok /\ plugin_path.exists
       THEN /\ plugin_path' = [plugin_path EXCEPT !.ref = repo[t].ref]
            /\ Goto(t, "list_all")
            /\ UNCHANGED lock
       ELSE /\ Return(t, "GitFailure")
            /\ lock' = Unlocked(t)
            /\ UNCHANGED plugin_path
    /\ UNCHANGED <<cache_dir, installs_dir, downloads_dir, cfg, iv, diskVars, procVars, op, force, calls, prev, repo, call_tv>>

\* a cached query (get_or_try_init) during warming: a hit needs the cache
\* file; a miss runs the script, which succeeds (the value is written) or fails
CachedQuery(t, next, file, script, outcome, msgs) ==
    /\ outcome = "hit" => file \in cache_dir
    /\ CASE outcome = "hit" ->
              /\ Logged(t, msgs)
              /\ Goto(t, next)
              /\ UNCHANGED <<cache_dir, lock>>
         [] outcome = "ok" ->
              /\ Logged(t, msgs \o <<EvA("run", <<script>>)>>)
              /\ cache_dir' = cache_dir \cup {file}
              /\ Goto(t, next)
              /\ UNCHANGED lock
         [] OTHER ->
              /\ Logged(t, msgs \o <<EvA("run", <<script>>), EvA("failed", <<script>>)>>)
              /\ Return(t, "ScriptFailed")
              /\ lock' = Unlocked(t)
              /\ UNCHANGED cache_dir

Skip(t, next, msgs) ==
    /\ Logged(t, msgs)
    /\ Goto(t, next)
    /\ UNCHANGED <<cache_dir, lock>>

\* install: `if self.has_list_all_script() { self.list_remote_versions(..)? }`
warm_list_all(t, outcome) ==
    /\ pc[t] = "list_all"
    /\ IF has_list_all_script
       THEN CachedQuery(t, "aliases", "remote_versions", "list-all", outcome,
                        <<Ev("loading plugin remote versions"), Ev("list_remote_versions")>>)
       ELSE Skip(t, "aliases", <<Ev("loading plugin remote versions")>>)
    /\ UNCHANGED <<plugin_path, installs_dir, downloads_dir, cfg, iv, diskVars, procVars, op, force, calls, prev, repo, call_tv>>

\* install: `if self.has_list_alias_script() { self.get_aliases(..)? }`
warm_aliases(t, outcome) ==
    /\ pc[t] = "aliases"
    /\ IF has_list_alias_script
       THEN IF cfg.toml.list_aliases # None
            THEN Skip(t, "legacy", <<Ev("getting plugin aliases"), Ev("get_aliases")>>)
            ELSE CachedQuery(t, "legacy", "aliases", "list-aliases", outcome,
                             <<Ev("getting plugin aliases"), Ev("get_aliases")>>)
       ELSE Skip(t, "legacy", <<>>)
    /\ UNCHANGED <<plugin_path, installs_dir, downloads_dir, cfg, iv, diskVars, procVars, op, force, calls, prev, repo, call_tv>>

\* install: `if self.has_list_legacy_filenames_script() { self.legacy_filenames(..)? }`
warm_legacy(t, outcome) ==
    /\ pc[t] = "legacy"
    /\ IF has_list_legacy_filenames_script
       THEN IF cfg.toml.list_legacy_filenames # None
            THEN Skip(t, "sha", <<Ev("getting plugin legacy filenames"), Ev("legacy_filenames")>>)
            ELSE CachedQuery(t, "sha", "legacy_filenames", "list-legacy-filenames", outcome,
                             <<Ev("getting plugin legacy filenames"), Ev("legacy_filenames")>>)
       ELSE Skip(t, "sha", <<>>)
    /\ UNCHANGED <<plugin_path, installs_dir, downloads_dir, cfg, iv, diskVars, procVars, op, force, calls, prev, repo, call_tv>>

\* install: `git.current_sha_short()?`, the final message, Ok(())
install_finish(t, ok) ==
    /\ pc[t] = "sha"
    /\ IF ok /\ plugin_path.exists
       THEN /\ Logged(t, <<EvA("finish", repo[t].url \o <<"#", "sha">>)>>)
            /\ Return(t, "ok")
       ELSE /\ UNCHANGED log
            /\ Return(t, "GitFailure")
    /\ lock' = Unlocked(t)
    /\ UNCHANGED <<fsVars, cfg, iv, diskVars, procVars, op, force, calls, prev, repo, call_tv>>

\* ------------------------------------------------------- install_version

\* a ToolVersion: its request variant and argument, and the resolved version.
\* A System request has no install path and is never passed to install_version
\* (script_man_for_tv panics on it).
ToolVersions ==
    {[request |-> "Version", arg |-> "1.0.0", version |-> "1.0.0"],
     [request |-> "Prefix", arg |-> "1", version |-> "1.0.0"],
     [request |-> "Ref", arg |-> "main", version |-> "ref:main"],
     [request |-> "Path", arg |-> "/p", version |-> "path:/p"],
     [request |-> "Sub", arg |-> "1", version |-> "0.9.0"],
     [request |-> "System", arg |-> "", version |-> "system"]}
InstallableToolVersions == {tv \in ToolVersions : tv.request # "System"}
NoToolVersion == [request |-> "none", arg |-> "", version |-> ""]

\* script_man_for_tv: RTX_INSTALL_TYPE and RTX_INSTALL_VERSION of the environment
install_type(tv) ==
    CASE tv.request \in {"Version", "Prefix"} -> "version"
      [] tv.request = "Ref" -> "ref"
      [] tv.request = "Path" -> "path"
      [] tv.request = "Sub" -> "sub"
      [] OTHER -> "panic"
install_version_env_resolved(tv) == tv.version
install_version_env(tv) == IF tv.request = "Ref" THEN tv.arg ELSE tv.version
script_man_for_tv(tv) == <<install_type(tv), install_version_env(tv)>>

ExitCodes == 0..MaxExitCode

\* install_version, `if self.script_man_for_tv(config, tv).script_exists(&Download)`
runs_download_always == TRUE
runs_download == script_exists("download")

\* install_version, `run_script(&Download)?`: a failed run ends the call
run_failed_ignored(code) == FALSE
run_failed(code) == code # 0

\* run_by_line(script): the script is started under the tool-version's
\* environment; a missing file cannot be started
RunEv(script, tv) == EvA("run", <<script>> \o script_man_for_tv(tv))

\* install_version, `pr.set_message("installing"); run_script(&Install)`
StartInstall(i) ==
    IF script_exists("install")
    THEN [i EXCEPT !.log = @ \o <<Ev("installing"), RunEv("install", i.tv)>>,
                   !.pc = "install"]
    ELSE [i EXCEPT !.log = @ \o <<Ev("installing"), RunEv("install", i.tv)>>,
                   !.pc = "idle", !.res = "SpawnFailed"]

\* install_version, `pr.set_message("downloading"); run_script(&Download)`
StartDownload(i) ==
    IF script_exists("download")
    THEN [i EXCEPT !.log = @ \o <<Ev("downloading"), RunEv("download", i.tv)>>,
                   !.pc = "download"]
    ELSE [i EXCEPT !.log = @ \o <<Ev("downloading"), RunEv("download", i.tv)>>,
                   !.pc = "idle", !.res = "SpawnFailed"]

\* install_version up to the first script started
install_version(tv) ==
    /\ iv.pc = "idle"
    /\ iv.calls < MaxCalls
    /\ LET started == [pc |-> "idle", tv |-> tv, log |-> <<>>, res |-> "none",
                       calls |-> iv.calls + 1]
       IN  iv' = IF runs_download THEN StartDownload(started) ELSE StartInstall(started)
    /\ UNCHANGED <<fsVars, lock, cfg, thrVars, diskVars, procVars>>

\* the download script exits; `?` returns its failure, else install is started
download_exits(code) ==
    /\ iv.pc = "download"
    /\ iv' = IF run_failed(code)
             THEN [iv EXCEPT !.log = @ \o <<EvC("exit", <<"download">>, code)>>,
                             !.pc = "idle", !.res = "ScriptFailed"]
             ELSE StartInstall([iv EXCEPT !.log = @ \o <<EvC("exit", <<"download">>, code)>>])
    /\ UNCHANGED <<fsVars, lock, cfg, thrVars, diskVars, procVars>>

\* the install script exits
install_exits(code) ==
    /\ iv.pc = "install"
    /\ iv' = [iv EXCEPT !.log = @ \o <<EvC("exit", <<"install">>, code)>>,
                        !.pc = "idle",
                        !.res = IF run_failed(code) THEN "ScriptFailed" ELSE "ok"]
    /\ UNCHANGED <<fsVars, lock, cfg, thrVars, diskVars, procVars>>

\* ------------------------------------------------------- text

Whitespace == {" ", "\n"}

\* str::split_whitespace: the maximal runs of non-whitespace characters
RECURSIVE SplitFrom(_, _)
SplitFrom(s, cur) ==
    IF s = <<>>
    THEN IF cur = <<>> THEN <<>> ELSE <<cur>>
    ELSE IF Head(s) \in Whitespace
         THEN (IF cur = <<>> THEN <<>> ELSE <<cur>>) \o SplitFrom(Tail(s), <<>>)
         ELSE SplitFrom(Tail(s), Append(cur, Head(s)))
split_whitespace(s) == SplitFrom(s, <<>>)

\* str::lines: the text between newlines; no last line after a final newline
RECURSIVE LinesFrom(_, _)
LinesFrom(s, cur) ==
    IF s = <<>>
    THEN IF cur = <<>> THEN <<>> ELSE <<cur>>
    ELSE IF Head(s) = "\n"
         THEN <<cur>> \o LinesFrom(Tail(s), <<>>)
         ELSE LinesFrom(Tail(s), Append(cur, Head(s)))
lines(s) == LinesFrom(s, <<>>)

\* str::trim
RECURSIVE trim_start(_)
trim_start(s) == IF s # <<>> /\ Head(s) \in Whitespace THEN trim_start(Tail(s)) ELSE s
RECURSIVE trim_end(_)
trim_end(s) ==
    IF s # <<>> /\ s[Len(s)] \in Whitespace THEN trim_end(SubSeq(s, 1, Len(s) - 1)) ELSE s
trim(s) == trim_end(trim_start(s))

\* parse_aliases: the lines of exactly two tokens, as (name, value) pairs
parse_aliases(data) ==
    SelectSeq([i \in 1..Len(lines(data)) |-> split_whitespace(lines(data)[i])],
              LAMBDA parts : Len(parts) = 2)

\* parse_legacy_filenames
parse_legacy_filenames(data) == split_whitespace(data)

\* `.into_iter().collect()` into a BTreeMap: a later pair replaces an earlier
\* one of the same name
collect_map(pairs) ==
    [k \in {pairs[i][1] : i \in 1..Len(pairs)} |->
        LET last == CHOOSE i \in 1..Len(pairs) :
                        /\ pairs[i][1] = k
                        /\ \A j \in 1..Len(pairs) : pairs[j][1] = k => j <= i
        IN  pairs[last][2]]

\* ------------------------------------------------------- cached queries

\* the scripts behind the four cached queries, and the files whose mtime the
\* caches watch
QueryScripts == {"list-all", "latest-stable", "list-aliases", "list-legacy-filenames"}
Sentinels == {"plugin_path"} \cup QueryScripts
QueryCaches == {"remote_versions", "latest_stable", "aliases", "legacy_filenames"}

\* RTX_FETCH_REMOTE_VERSIONS_CACHE, in ticks of the clock
FreshDuration == 1

\* ExternalPlugin::new: the freshness settings of each cache manager
CacheScript(c) ==
    CASE c = "remote_versions" -> "list-all"
      [] c = "latest_stable" -> "latest-stable"
      [] c = "aliases" -> "list-aliases"
      [] OTHER -> "list-legacy-filenames"
fresh_duration_zero(c) == Some(0)
fresh_duration_all(c) == Some(FreshDuration)
fresh_duration(c) ==
    IF c \in {"remote_versions", "latest_stable"} THEN Some(FreshDuration) ELSE None
fresh_files(c) == {"plugin_path", CacheScript(c)}

\* what list_remote_versions, latest_stable_version, fetch_aliases and
\* fetch_legacy_filenames make of a script's output
Parsed(c, stdout) ==
    CASE c = "remote_versions" -> split_whitespace(stdout)
      [] c = "latest_stable" -> IF trim(stdout) = <<>> THEN None ELSE Some(trim(stdout))
      [] c = "aliases" -> parse_aliases(stdout)
      [] OTHER -> parse_legacy_filenames(stdout)

\* a cache file written at time 0 from Stdout1, decodable or not
\* (old: the file was written before the plugin was cloned again; no step
\* reads it)
StoredAt0(c, decodes) ==
    [mtime |-> 0, value |-> Parsed(c, Stdout1), decodes |-> decodes, old |-> FALSE]

\* the legacy file (.tool-versions, .nvmrc, ...) and its cache file
LegacyUncached(content) ==
    [mtime |-> 0, content |-> content, cache_mtime |-> 0, cache_value |-> <<>>]

NoMemo == [bin_paths |-> {}, exec_env |-> {}]
QIdle ==
    [op |-> "none", arg |-> <<>>, res |-> "none", val |-> <<>>, log |-> <<>>,
     calls |-> 0, changes |-> 0, modified |-> FALSE]
CmdIdle ==
    [pc |-> "idle", args |-> <<>>, todo |-> <<>>, out |-> <<>>, res |-> "none",
     calls |-> 0]

has_latest_stable_script == script_exists("latest-stable")

\* an operation of the plugin is called and returns: its result and events
\* replace those of the operation before it
Called(name, arg, r) ==
    /\ q.calls < MaxOps
    /\ q' = [op |-> name, arg |-> arg, res |-> r.res, val |-> r.val, log |-> r.log,
             calls |-> q.calls + 1, changes |-> q.changes, modified |-> FALSE]

Returned(result, value, events) == [res |-> result, val |-> value, log |-> events]

\* ScriptManager: a script is started (cmd, read, run); a missing file cannot
\* be started, a started script exits with 0, exits with another code, or is
\* killed at the timeout
RunStatuses == {"ok", "fail"}
RunResult(script, status) ==
    IF ~script_exists(script)
    THEN "SpawnFailed"
    ELSE CASE status = "ok" -> "ok"
           [] status = "timeout" -> "ScriptTimeout"
           [] OTHER -> "ScriptFailed"

\* fetch_remote_versions, fetch_latest_stable, fetch_aliases,
\* fetch_legacy_filenames: run the script, parse what it printed
\* the error names the script; what a query adds names the plugin
ScriptError(script) == << <<"script", script>> >>
Fetch(c, stdout, status) ==
    Returned(RunResult(CacheScript(c), status),
             IF RunResult(CacheScript(c), status) = "ok"
             THEN Parsed(c, stdout)
             ELSE ScriptError(CacheScript(c)),
             <<EvA("run", <<CacheScript(c)>>)>>)

\* `.map_err(|err| eyre!("Failed ... for plugin {}: {}", self.name, err))`
with_plugin_name_twice(r) ==
    IF r.res = "ok"
    THEN r
    ELSE [r EXCEPT !.val = << <<"plugin", "name">>, <<"plugin", "name">> >> \o @]
with_plugin_name(r) ==
    IF r.res = "ok" THEN r ELSE [r EXCEPT !.val = << <<"plugin", "name">> >> \o @]
fetch_remote_versions(stdout, status) == Fetch("remote_versions", stdout, status)
fetch_latest_stable(stdout, status) == Fetch("latest_stable", stdout, status)
fetch_aliases(stdout, status) == Fetch("aliases", stdout, status)
fetch_legacy_filenames(stdout, status) == Fetch("legacy_filenames", stdout, status)

\* CacheManager: the cache file is fresh. A sentinel that does not exist has
\* no mtime: whether it spoils the freshness is left open (missing_ok).
SentinelExists(f) == IF f = "plugin_path" THEN plugin_path.exists ELSE script_exists(f)
is_fresh(c, missing_ok) ==
    /\ c \in cache_dir
    /\ \A f \in fresh_files(c) :
           IF SentinelExists(f) THEN mtime[f] <= cache_meta[c].mtime ELSE missing_ok
    /\ fresh_duration(c) # None => now - cache_meta[c].mtime <= fresh_duration(c)[1]

\* CacheManager::get_or_try_init(fetch): the stored value when the file is
\* fresh and decodes; otherwise the fetched value, which is written
get_or_try_init(c, missing_ok, fetched) ==
    IF is_fresh(c, missing_ok) /\ cache_meta[c].decodes
    THEN [res |-> "ok", val |-> cache_meta[c].value, log |-> <<EvA("hit", <<c>>)>>,
          write |-> FALSE]
    ELSE [res |-> fetched.res, val |-> fetched.val,
          log |-> <<EvA("miss", <<c>>)>> \o fetched.log
                  \o (IF fetched.res = "ok" THEN <<EvA("write", <<c>>)>> ELSE <<>>),
          write |-> fetched.res = "ok"]

\* the cache file after the lookup
Written(c, r) ==
    /\ cache_dir' = IF r.write THEN cache_dir \cup {c} ELSE cache_dir
    /\ cache_meta' = IF r.write
                     THEN [cache_meta EXCEPT ![c] = [mtime |-> now, value |-> r.val,
                                                     decodes |-> TRUE, old |-> FALSE]]
                     ELSE cache_meta

\* list_remote_versions
list_remote_versions(stdout, status, missing_ok) ==
    LET r == get_or_try_init("remote_versions", missing_ok,
                             fetch_remote_versions(stdout, status))
    IN  /\ Called("list_remote_versions", <<>>,
                   with_plugin_name(Returned(r.res, r.val, r.log)))
        /\ Written("remote_versions", r)
        /\ UNCHANGED <<plugin_path, installs_dir, downloads_dir, lock, cfg, thrVars, iv,
                       now, mtime, legacy, memo, env, cmd>>

\* latest_stable_version
latest_stable_version(stdout, status) ==
    /\ IF ~has_latest_stable_script
       THEN /\ Called("latest_stable_version", <<>>, Returned("ok", None, <<>>))
            /\ UNCHANGED <<cache_dir, cache_meta>>
       ELSE LET r == get_or_try_init("latest_stable", TRUE,
                                     fetch_latest_stable(stdout, status))
            IN  /\ Called("latest_stable_version", <<>>,
                           with_plugin_name(Returned(r.res, r.val, r.log)))
                /\ Written("latest_stable", r)
    /\ UNCHANGED <<plugin_path, installs_dir, downloads_dir, lock, cfg, thrVars, iv,
                   now, mtime, legacy, memo, env, cmd>>

\* get_aliases: the manifest's data, else nothing without the script, else
\* the cached fetch; the pairs are collected into a map
aliases_from_manifest_never == FALSE
aliases_from_manifest == cfg.toml.list_aliases # None
get_aliases(stdout, status) ==
    /\ IF aliases_from_manifest
       THEN /\ Called("get_aliases", <<>>,
                      Returned("ok", collect_map(parse_aliases(cfg.toml.list_aliases[1])), <<>>))
            /\ UNCHANGED <<cache_dir, cache_meta>>
       ELSE IF ~has_list_alias_script
            THEN /\ Called("get_aliases", <<>>, Returned("ok", collect_map(<<>>), <<>>))
                 /\ UNCHANGED <<cache_dir, cache_meta>>
            ELSE LET r == get_or_try_init("aliases", TRUE, fetch_aliases(stdout, status))
                 IN  /\ Called("get_aliases", <<>>,
                               with_plugin_name(
                                   Returned(r.res,
                                            IF r.res = "ok" THEN collect_map(r.val) ELSE r.val,
                                            r.log)))
                     /\ Written("aliases", r)
    /\ UNCHANGED <<plugin_path, installs_dir, downloads_dir, lock, cfg, thrVars, iv,
                   now, mtime, legacy, memo, env, cmd>>

\* legacy_filenames: the manifest's data, else nothing without the script,
\* else the cached fetch
legacy_filenames(stdout, status) ==
    /\ IF cfg.toml.list_legacy_filenames # None
       THEN /\ Called("legacy_filenames", <<>>,
                      Returned("ok", parse_legacy_filenames(cfg.toml.list_legacy_filenames[1]),
                               <<>>))
            /\ UNCHANGED <<cache_dir, cache_meta>>
       ELSE IF ~has_list_legacy_filenames_script
            THEN /\ Called("legacy_filenames", <<>>, Returned("ok", <<>>, <<>>))
                 /\ UNCHANGED <<cache_dir, cache_meta>>
            ELSE LET r == get_or_try_init("legacy_filenames", TRUE,
                                          fetch_legacy_filenames(stdout, status))
                 IN  /\ Called("legacy_filenames", <<>>,
                               with_plugin_name(Returned(r.res, r.val, r.log)))
                     /\ Written("legacy_filenames", r)
    /\ UNCHANGED <<plugin_path, installs_dir, downloads_dir, lock, cfg, thrVars, iv,
                   now, mtime, legacy, memo, env, cmd>>

\* time passes
tick ==
    /\ now < MaxTime
    /\ now' = now + 1
    /\ UNCHANGED <<fsVars, lock, cfg, thrVars, iv, mtime, cache_meta, legacy, procVars>>

Changed == [q EXCEPT !.changes = @ + 1, !.modified = TRUE]

\* update: the Git adapter rewrites a file of the installed plugin
update(f) ==
    /\ q.changes < MaxChanges
    /\ SentinelExists(f)
    /\ mtime' = [mtime EXCEPT ![f] = now]
    /\ q' = Changed
    /\ UNCHANGED <<fsVars, lock, cfg, thrVars, iv, now, cache_meta, legacy, memo, env, cmd>>

\* install up to the checkout, as the caches see it: plugin_path is removed
\* and cloned again, the directory and its scripts are as old as the clone
reclone ==
    /\ q.changes < MaxChanges
    /\ plugin_path.exists
    /\ mtime' = [f \in Sentinels |-> now]
    /\ cache_meta' = [c \in QueryCaches |-> [cache_meta[c] EXCEPT !.old = c \in cache_dir]]
    /\ q' = Changed
    /\ UNCHANGED <<fsVars, lock, cfg, thrVars, iv, now, legacy, memo, env, cmd>>

\* ------------------------------------------------------- legacy files

\* what a legacy file holds
Contents == {<<"v", "1", "\n">>, <<" ", "2">>}

\* bin/parse-legacy-file prints the version it reads in the legacy file: the
\* content without a leading "v", and a newline
parse_legacy_file_script(content) ==
    (IF trim(content) # <<>> /\ Head(trim(content)) = "v"
     THEN Tail(trim(content))
     ELSE trim(content)) \o <<"\n">>

\* fetch_cached_legacy_file, `fp.metadata()?.modified()? < legacy_file.metadata()?.modified()?`
legacy_cache_is_stale_or_equal(cache_mtime, file_mtime) == cache_mtime <= file_mtime
legacy_cache_is_stale(cache_mtime, file_mtime) == cache_mtime < file_mtime

\* fetch_cached_legacy_file: the trimmed cache file, unless it is missing or
\* older than the legacy file
fetch_cached_legacy_file ==
    IF "legacy_txt" \notin cache_dir \/ legacy_cache_is_stale(legacy.cache_mtime, legacy.mtime)
    THEN None
    ELSE Some(trim(legacy.cache_value))

\* parse_legacy_file: the cached version, else the script's output or the
\* file itself, trimmed and written to the cache
parse_legacy_file(status) ==
    /\ IF fetch_cached_legacy_file # None
       THEN /\ Called("parse_legacy_file", <<>>,
                      Returned("ok", fetch_cached_legacy_file[1], <<EvA("hit", <<"legacy_txt">>)>>))
            /\ UNCHANGED <<cache_dir, legacy>>
       ELSE LET ran == script_exists("parse-legacy-file")
                result == IF ran THEN RunResult("parse-legacy-file", status) ELSE "ok"
                legacy_version == trim(IF ran THEN parse_legacy_file_script(legacy.content)
                                              ELSE legacy.content)
                source == IF ran THEN EvA("run", <<"parse-legacy-file">>)
                                 ELSE EvA("read", <<"legacy_file">>)
            IN  IF result = "ok"
                THEN /\ Called("parse_legacy_file", <<>>,
                               Returned("ok", legacy_version,
                                        <<EvA("miss", <<"legacy_txt">>), source,
                                          EvA("write", <<"legacy_txt">>)>>))
                     /\ cache_dir' = cache_dir \cup {"legacy_txt"}
                     /\ legacy' = [legacy EXCEPT !.cache_mtime = now,
                                                 !.cache_value = legacy_version]
                ELSE /\ Called("parse_legacy_file", <<>>,
                               Returned(result, <<>>, <<EvA("miss", <<"legacy_txt">>), source>>))
                     /\ UNCHANGED <<cache_dir, legacy>>
    /\ UNCHANGED <<plugin_path, installs_dir, downloads_dir, lock, cfg, thrVars, iv,
                   now, mtime, cache_meta, memo, env, cmd>>

\* the user (or a tool) writes the legacy file
write_legacy_file(content) ==
    /\ q.changes < MaxChanges
    /\ legacy' = [legacy EXCEPT !.mtime = now, !.content = content]
    /\ q' = Changed
    /\ UNCHANGED <<fsVars, lock, cfg, thrVars, iv, now, mtime, cache_meta, memo, env, cmd>>

\* ------------------------------------------------------- per-version results
\* `matches!(tv.request, ToolVersionRequest::System(_))`
is_system_never(tv) == FALSE
is_system(tv) == tv.request = "System"

\* `*env::__RTX_SCRIPT`: the process was started by a plugin script
nested_in_script_never == FALSE
nested_in_script == env.rtx_script

\* the in-process cache of one kind of result: the value kept for the
\* tool-version, else the fetched one, kept when the fetch succeeded
memo_get(kind, tv, fetched) ==
    IF \E e \in memo[kind] : e.tv = tv
    THEN [res |-> "ok", val |-> (CHOOSE e \in memo[kind] : e.tv = tv).val,
          log |-> <<EvA("memo_hit", <<kind>>)>>, write |-> FALSE]
    ELSE [res |-> fetched.res, val |-> fetched.val,
          log |-> <<EvA("memo_miss", <<kind>>)>> \o fetched.log,
          write |-> fetched.res = "ok"]

Memoized(kind, tv, r) ==
    memo' = IF r.write
            THEN [memo EXCEPT ![kind] = @ \cup {[tv |-> tv, val |-> r.val]}]
            ELSE memo

\* a step that composes the environment of the tool-version first:
\* script_man_for_tv panics on a System request
WithScriptMan(tv, r) ==
    IF install_type(tv) = "panic"
    THEN Returned("panic", <<>>, <<EvA("env", script_man_for_tv(tv))>>)
    ELSE Returned(r.res, r.val, <<EvA("env", script_man_for_tv(tv))>> \o r.log)

\* `tv.install_path().join(path)`
JoinInstallPath(tv, paths) == [i \in 1..Len(paths) |-> <<tv.version, paths[i]>>]
DefaultBinPaths == << <<"b", "i", "n">> >>

\* fetch_bin_paths
fetch_bin_paths(tv, stdout, status) ==
    IF is_system(tv)
    THEN Returned("ok", <<>>, <<>>)
    ELSE IF script_exists("list-bin-paths")
         THEN LET result == RunResult("list-bin-paths", status)
              IN  WithScriptMan(tv,
                      Returned(result,
                               IF result = "ok"
                               THEN JoinInstallPath(tv, split_whitespace(stdout))
                               ELSE <<>>,
                               <<EvA("run", <<"list-bin-paths">>)>>))
         ELSE Returned("ok", JoinInstallPath(tv, DefaultBinPaths), <<>>)

\* list_bin_paths
list_bin_paths(tv, stdout, status) ==
    LET r == memo_get("bin_paths", tv, fetch_bin_paths(tv, stdout, status))
    IN  /\ Called("list_bin_paths", <<tv.request>>, Returned(r.res, r.val, r.log))
        /\ Memoized("bin_paths", tv, r)
        /\ UNCHANGED <<fsVars, lock, cfg, thrVars, iv, diskVars, env, cmd>>

\* what sourcing bin/exec-env changed in the environment of the shell
EnvDiffs ==
    {<<>>,
     <<[op |-> "Add", key |-> "A", value |-> "1"],
       [op |-> "Remove", key |-> "B", value |-> ""],
       [op |-> "Change", key |-> "C", value |-> "2"]>>}

IsAddOrChange(p) == p.op \in {"Add", "Change"}
to_env(patches) ==
    LET kept == SelectSeq(patches, IsAddOrChange)
    IN  [i \in 1..Len(kept) |-> <<kept[i].key, kept[i].value>>]

\* fetch_exec_env: a shell sources the script under the composed environment
fetch_exec_env(tv, patches, status) ==
    WithScriptMan(tv,
        Returned(IF status = "ok" THEN "ok" ELSE "ScriptFailed",
                 IF status = "ok" THEN to_env(patches) ELSE <<>>,
                 <<EvA("shell", <<"exec-env">>), EvA("run", <<"exec-env">>)>>))

\* exec_env
exec_env(tv, patches, status) ==
    /\ IF is_system(tv)
       THEN /\ Called("exec_env", <<tv.request>>, Returned("ok", <<>>, <<>>))
            /\ UNCHANGED memo
       ELSE IF ~script_exists("exec-env") \/ nested_in_script
            THEN /\ Called("exec_env", <<tv.request>>, Returned("ok", <<>>, <<>>))
                 /\ UNCHANGED memo
            ELSE LET r == memo_get("exec_env", tv, fetch_exec_env(tv, patches, status))
                 IN  /\ Called("exec_env", <<tv.request>>, Returned(r.res, r.val, r.log))
                     /\ Memoized("exec_env", tv, r)
    /\ UNCHANGED <<fsVars, lock, cfg, thrVars, iv, diskVars, env, cmd>>

\* uninstall_version: bin/uninstall is run, if the plugin has it
uninstall_version(tv, status) ==
    /\ IF script_exists("uninstall")
       THEN Called("uninstall_version", <<tv.request>>,
                   WithScriptMan(tv, Returned(RunResult("uninstall", status), <<>>,
                                              <<EvA("run", <<"uninstall">>)>>)))
       ELSE Called("uninstall_version", <<tv.request>>, Returned("ok", <<>>, <<>>))
    /\ UNCHANGED <<fsVars, lock, cfg, thrVars, iv, diskVars, memo, env, cmd>>

\* ------------------------------------------------------- ls-remote
\* `v.starts_with(prefix)`
starts_with(v, prefix) ==
    Len(prefix) <= Len(v) /\ SubSeq(v, 1, Len(prefix)) = prefix

\* LsRemote::run, the prefix: the version of TOOL@VERSION when the request
\* is a plain version, else the positional argument
ls_remote_prefix_positional(tvr, prefix) == prefix
ls_remote_prefix(tvr, prefix) ==
    IF tvr # None /\ tvr[1].request = "Version" THEN Some(tvr[1].arg) ELSE prefix

\* LsRemote::run, the versions kept
ls_remote_filter(versions, prefix) ==
    IF prefix = None
    THEN versions
    ELSE LET Kept(v) == starts_with(v, prefix[1])
         IN  SelectSeq(versions, Kept)

\* the command line: TOOL or TOOL@VERSION, and the optional prefix
LsStdout == <<"1", "0", " ", "2", "\n", "1", "1">>
LsRemoteTvrs ==
    {None} \cup {Some([request |-> k, arg |-> <<"1">>]) : k \in {"Version", "Prefix", "Ref"}}
LsRemotePrefixes == {None, Some(<<"1", "1">>), Some(<<"2">>)}

\* ls-remote is started
ls_remote(tvr, prefix) ==
    /\ cmd.pc = "idle"
    /\ cmd' = [cmd EXCEPT !.pc = "get_plugin", !.args = <<tvr, prefix>>]
    /\ UNCHANGED <<fsVars, lock, cfg, thrVars, iv, diskVars, memo, env, q>>

\* get_plugin: `tool.ensure_installed(config, None, false)?`
get_plugin(t) ==
    /\ cmd.pc = "get_plugin"
    /\ call_ensure_installed(t, FALSE)

\* `?` on get_plugin: the command ends with the error of ensure_installed
ls_remote_no_plugin(t) ==
    /\ cmd.pc = "get_plugin"
    /\ calls = 1 /\ pc[t] = "idle" /\ op[t] = "ensure_installed" /\ res[t] # "ok"
    /\ cmd' = [cmd EXCEPT !.pc = "done", !.res = res[t]]
    /\ UNCHANGED <<fsVars, lock, cfg, thrVars, iv, diskVars, memo, env, q>>

\* `plugin.list_remote_versions(&config.settings)`
ls_remote_list(t, stdout, status, missing_ok) ==
    /\ cmd.pc = "get_plugin"
    /\ calls = 1 /\ pc[t] = "idle" /\ op[t] = "ensure_installed" /\ res[t] = "ok"
    /\ q.calls = 0
    /\ list_remote_versions(stdout, status, missing_ok)

\* `?` on the list, else the versions that start with the prefix are
\* printed, one per line
ls_remote_print ==
    /\ cmd.pc = "get_plugin"
    /\ q.op = "list_remote_versions"
    /\ cmd' = IF q.res # "ok"
              THEN [cmd EXCEPT !.pc = "done", !.res = q.res]
              ELSE [cmd EXCEPT !.pc = "done", !.res = "ok",
                               !.out = ls_remote_filter(q.val,
                                           ls_remote_prefix(cmd.args[1], cmd.args[2]))]
    /\ UNCHANGED <<fsVars, lock, cfg, thrVars, iv, diskVars, memo, env, q>>

\* ------------------------------------------------------- uninstall command
\* Tool::is_version_installed: the install path of the tool-version exists
is_version_installed(tv) == tv.version \in installs_dir

\* Uninstall::run, `if !plugin.is_version_installed(&tv) { warn!(..); continue; }`
skips_never(tv) == FALSE
skips(tv) == ~is_version_installed(tv)

\* the tool-versions the command line resolved to
UninstallToolVersions ==
    {tv \in ToolVersions : tv.request \in {"Version", "Sub", "System"}}
UninstallLists ==
    {<<tv>> : tv \in UninstallToolVersions}
        \cup {p \in UninstallToolVersions \X UninstallToolVersions : p[1] # p[2]}

\* uninstall is started: the loop over (plugin, tv) begins
uninstall_command(tool_versions, dry_run) ==
    /\ cmd.pc = "idle"
    /\ cmd' = [cmd EXCEPT !.pc = "loop", !.args = <<dry_run>>, !.todo = tool_versions]
    /\ UNCHANGED <<fsVars, lock, cfg, thrVars, iv, diskVars, memo, env, q>>

\* a tool-version that is not installed: the warning, and the next one
uninstall_skip ==
    /\ cmd.pc = "loop" /\ cmd.todo # <<>>
    /\ skips(Head(cmd.todo))
    /\ cmd' = [cmd EXCEPT !.todo = Tail(@),
                          !.out = @ \o <<EvA("warn", <<Head(cmd.todo).version>>)>>]
    /\ UNCHANGED <<fsVars, lock, cfg, thrVars, iv, diskVars, memo, env, q>>

\* Tool::uninstall_version without --dry-run: the plugin's uninstall_version
uninstall_run(status) ==
    /\ cmd.pc = "loop" /\ cmd.todo # <<>>
    /\ ~skips(Head(cmd.todo))
    /\ ~cmd.args[1]
    /\ q.calls = cmd.calls
    /\ uninstall_version(Head(cmd.todo), status)

\* Uninstall::run, `if let Err(err) = plugin.uninstall_version(..)`: the
\* plugin's script failed, or the directories could not be removed
uninstall_failed_never(ok) == FALSE
uninstall_failed(ok) == ~(q.res = "ok" /\ ok)

\* Tool::uninstall_version, the rest: the directories of the tool-version
\* are removed; an error ends the command
uninstall_remove(ok) ==
    /\ cmd.pc = "loop" /\ cmd.todo # <<>>
    /\ ~skips(Head(cmd.todo))
    /\ ~cmd.args[1]
    /\ q.calls = cmd.calls + 1
    /\ IF ~uninstall_failed(ok)
       THEN /\ installs_dir' = installs_dir \ {Head(cmd.todo).version}
            /\ downloads_dir' = downloads_dir \ {Head(cmd.todo).version}
            /\ cmd' = [cmd EXCEPT !.todo = Tail(@), !.calls = @ + 1,
                           !.out = @ \o <<EvA("uninstalled", <<Head(cmd.todo).version>>)>>]
       ELSE /\ UNCHANGED <<installs_dir, downloads_dir>>
            /\ cmd' = [cmd EXCEPT !.pc = "done", !.calls = @ + 1,
                           !.res = IF q.res = "ok" THEN "IO" ELSE q.res,
                           !.out = @ \o <<EvA("error", <<Head(cmd.todo).version>>)>>]
    /\ UNCHANGED <<plugin_path, cache_dir, lock, cfg, thrVars, iv, diskVars, memo, env, q>>

\* Tool::uninstall_version with --dry-run: nothing is run or removed
uninstall_dry_run ==
    /\ cmd.pc = "loop" /\ cmd.todo # <<>>
    /\ ~skips(Head(cmd.todo))
    /\ cmd.args[1]
    /\ cmd' = [cmd EXCEPT !.todo = Tail(@),
                          !.out = @ \o <<EvA("uninstalled", <<Head(cmd.todo).version>>)>>]
    /\ UNCHANGED <<fsVars, lock, cfg, thrVars, iv, diskVars, memo, env, q>>

\* after the loop: `ToolsetBuilder::new().build(&mut config)?`,
\* `shims::reshim(..)?`, `runtime_symlinks::rebuild(&config)?`, `Ok(())`
FinishSteps == <<"build", "reshim", "rebuild">>
uninstall_finish(failing) ==
    /\ cmd.pc = "loop" /\ cmd.todo = <<>>
    /\ cmd' = [cmd EXCEPT
                 !.pc = "done",
                 !.res = IF failing = 0 THEN "ok" ELSE FinishSteps[failing],
                 !.out = @ \o [i \in 1..(IF failing = 0 THEN 3 ELSE failing) |->
                                  IF i = failing THEN EvA("failed", <<FinishSteps[i]>>)
                                                 ELSE EvA("done", <<FinishSteps[i]>>)]]
    /\ UNCHANGED <<fsVars, lock, cfg, thrVars, iv, diskVars, memo, env, q>>

\* ------------------------------------------------------- script environment
\* the name of an environment variable, character by character
Var(name) ==
    CASE name = "RTX_PLUGIN_NAME" ->
           <<"R", "T", "X", "_", "P", "L", "U", "G", "I", "N", "_", "N", "A", "M", "E">>
      [] name = "RTX_PLUGIN_PATH" ->
           <<"R", "T", "X", "_", "P", "L", "U", "G", "I", "N", "_", "P", "A", "T", "H">>
      [] name = "RTX_SHIMS_DIR" ->
           <<"R", "T", "X", "_", "S", "H", "I", "M", "S", "_", "D", "I", "R">>
      [] name = "RTX_PROJECT_ROOT" ->
           <<"R", "T", "X", "_", "P", "R", "O", "J", "E", "C", "T", "_", "R", "O", "O", "T">>
      [] name = "RTX_TOOL_OPTS__" ->
           <<"R", "T", "X", "_", "T", "O", "O", "L", "_", "O", "P", "T", "S", "_", "_">>
      [] name = "RTX_INSTALL_PATH" ->
           <<"R", "T", "X", "_", "I", "N", "S", "T", "A", "L", "L", "_", "P", "A", "T", "H">>
      [] name = "ASDF_INSTALL_PATH" ->
           <<"A", "S", "D", "F", "_", "I", "N", "S", "T", "A", "L", "L", "_", "P", "A", "T", "H">>
      [] name = "RTX_DOWNLOAD_PATH" ->
           <<"R", "T", "X", "_", "D", "O", "W", "N", "L", "O", "A", "D", "_", "P", "A", "T", "H">>
      [] name = "ASDF_DOWNLOAD_PATH" ->
           <<"A", "S", "D", "F", "_", "D", "O", "W", "N", "L", "O", "A", "D", "_", "P", "A", "T", "H">>
      [] name = "RTX_INSTALL_TYPE" ->
           <<"R", "T", "X", "_", "I", "N", "S", "T", "A", "L", "L", "_", "T", "Y", "P", "E">>
      [] name = "ASDF_INSTALL_TYPE" ->
           <<"A", "S", "D", "F", "_", "I", "N", "S", "T", "A", "L", "L", "_", "T", "Y", "P", "E">>
      [] name = "RTX_INSTALL_VERSION" ->
           <<"R", "T", "X", "_", "I", "N", "S", "T", "A", "L", "L", "_", "V", "E", "R", "S", "I", "O", "N">>
      [] name = "ASDF_INSTALL_VERSION" ->
           <<"A", "S", "D", "F", "_", "I", "N", "S", "T", "A", "L", "L", "_", "V", "E", "R", "S", "I", "O", "N">>

\* `key.to_uppercase()`
to_uppercase(key) ==
    LET Lowercase ==
            <<"a", "b", "c", "d", "e", "f", "g", "h", "i", "j", "k", "l", "m", "n", "o", "p", "q", "r", "s", "t", "u", "v", "w", "x", "y", "z">>
        Uppercase ==
            <<"A", "B", "C", "D", "E", "F", "G", "H", "I", "J", "K", "L", "M", "N", "O", "P", "Q", "R", "S", "T", "U", "V", "W", "X", "Y", "Z">>
    IN  [i \in 1..Len(key) |->
            IF \E j \in 1..26 : Lowercase[j] = key[i]
            THEN Uppercase[CHOOSE j \in 1..26 : Lowercase[j] = key[i]]
            ELSE key[i]]

\* ScriptManager::with_env: the binding is added; a later binding of a
\* name overrides an earlier one
with_env(sm, k, v) == Append(sm, <<k, v>>)
EnvGet(sm, k) ==
    LET Bindings == {i \in 1..Len(sm) : sm[i][1] = k}
    IN  IF Bindings = {}
        THEN None
        ELSE Some(sm[CHOOSE i \in Bindings : \A j \in Bindings : j <= i][2])

\* build_script_man: the plugin-wide variables
build_script_man ==
    with_env(with_env(with_env(<<>>, Var("RTX_PLUGIN_NAME"), <<"name">>),
                      Var("RTX_PLUGIN_PATH"), <<"plugins", "name">>),
             Var("RTX_SHIMS_DIR"), <<"shims">>)

\* script_man_for_tv, `for (key, value) in &tv.opts`
RECURSIVE WithToolOpts(_, _)
WithToolOpts(sm, opts) ==
    IF opts = <<>>
    THEN sm
    ELSE WithToolOpts(with_env(sm, Var("RTX_TOOL_OPTS__") \o to_uppercase(opts[1][1]),
                               opts[1][2]),
                      Tail(opts))

\* script_man_for_tv, the environment of the script manager it returns
\* for a tool-version that is not System
tv_env(tv, opts, project_root) ==
    LET sm1 == WithToolOpts(build_script_man, opts)
        sm2 == IF project_root # None
               THEN with_env(sm1, Var("RTX_PROJECT_ROOT"), project_root[1])
               ELSE sm1
        sm3 == with_env(sm2, Var("RTX_INSTALL_PATH"), <<"installs", tv.version>>)
        sm4 == with_env(sm3, Var("ASDF_INSTALL_PATH"), <<"installs", tv.version>>)
        sm5 == with_env(sm4, Var("RTX_DOWNLOAD_PATH"), <<"downloads", tv.version>>)
        sm6 == with_env(sm5, Var("ASDF_DOWNLOAD_PATH"), <<"downloads", tv.version>>)
        sm7 == with_env(sm6, Var("RTX_INSTALL_TYPE"), <<install_type(tv)>>)
        sm8 == with_env(sm7, Var("ASDF_INSTALL_TYPE"), <<install_type(tv)>>)
        sm9 == with_env(sm8, Var("RTX_INSTALL_VERSION"), <<install_version_env(tv)>>)
    IN  with_env(sm9, Var("ASDF_INSTALL_VERSION"), <<install_version_env(tv)>>)

\* the options of a tool-version, and the project root of the configuration
ToolOpts ==
    {<<>>,
     << <<<<"i", "n", "s", "t", "a", "l", "l", "_", "t", "y", "p", "e">>, <<"x">> >> >>,
     << <<<<"i", "n", "s", "t", "a", "l", "l", "_", "v", "e", "r", "s", "i", "o", "n">>, <<"9">> >> >>,
     << <<<<"a", "s", "d", "f", "_", "i", "n", "s", "t", "a", "l", "l", "_", "t", "y", "p", "e">>, <<"y">> >> >>,
     << <<<<"a">>, <<"1">> >>, <<<<"A">>, <<"2">> >> >>}
ProjectRoots == {None, Some(<<"root">>)}

\* script_man_for_tv is called for a version-scoped script
compose_env(tv, opts, project_root) ==
    /\ Called("script_man_for_tv", <<tv.request, tv.arg, tv.version>>,
              IF install_type(tv) = "panic"
              THEN Returned("panic", <<>>, <<>>)
              ELSE Returned("ok", tv_env(tv, opts, project_root), <<>>))
    /\ UNCHANGED <<fsVars, lock, cfg, thrVars, iv, diskVars, memo, env, cmd>>

\* ------------------------------------------------------- list-all timeout
\* *RTX_FETCH_REMOTE_VERSIONS_TIMEOUT, in ticks of the clock
ListAllTimeout == 1

\* the time the running script was started at
StartedAt == q.log[Len(q.log)].c

\* run_with_timeout(.., *RTX_FETCH_REMOTE_VERSIONS_TIMEOUT): the time is up
list_all_timed_out_never == FALSE
list_all_timed_out == now - StartedAt >= ListAllTimeout

\* list_remote_versions up to the start of bin/list-all: the cached list,
\* or the script is started (a missing file cannot be)
list_remote_versions_starts(missing_ok) ==
    /\ q.res # "running"
    /\ now + ListAllTimeout <= MaxTime
    /\ LET started == IF script_exists("list-all")
                      THEN Returned("running", <<>>, <<EvC("run", <<"list-all">>, now)>>)
                      ELSE fetch_remote_versions(<<>>, "ok")
           r == get_or_try_init("remote_versions", missing_ok, started)
       IN  Called("list_remote_versions", <<>>,
                  IF r.res = "running"
                  THEN Returned(r.res, r.val, r.log)
                  ELSE with_plugin_name(Returned(r.res, r.val, r.log)))
    /\ UNCHANGED <<fsVars, lock, cfg, thrVars, iv, diskVars, memo, env, cmd>>

\* bin/list-all exits before the time is up
list_all_exits(stdout, status) ==
    /\ q.res = "running"
    /\ ~list_all_timed_out
    /\ LET f == fetch_remote_versions(stdout, status)
           r == with_plugin_name(Returned(f.res, f.val, <<>>))
       IN  /\ q' = [q EXCEPT !.res = r.res, !.val = r.val,
                             !.log = @ \o <<EvA("exit", <<"list-all">>)>>
                                       \o (IF f.res = "ok"
                                           THEN <<EvA("write", <<"remote_versions">>)>>
                                           ELSE <<>>)]
           /\ Written("remote_versions", [write |-> f.res = "ok", val |-> f.val])
    /\ UNCHANGED <<plugin_path, installs_dir, downloads_dir, lock, cfg, thrVars, iv,
                   now, mtime, legacy, memo, env, cmd>>

\* the time is up: the script is killed and the call returns the error
list_all_killed ==
    /\ q.res = "running"
    /\ list_all_timed_out
    /\ q' = [q EXCEPT !.res = "ScriptTimeout",
                      !.val = with_plugin_name(Returned("ScriptTimeout",
                                                        ScriptError("list-all"), <<>>)).val,
                      !.log = @ \o <<EvA("kill", <<"list-all">>)>>]
    /\ UNCHANGED <<fsVars, lock, cfg, thrVars, iv, diskVars, memo, env, cmd>>

\* ------------------------------------------------------- per-version results, by threads
\* list_bin_paths, exec_env: `self.cache.list_bin_paths(.., || self.fetch_bin_paths(..))`,
\* `self.cache.exec_env(.., || self.fetch_exec_env(..))`: the fetch is
\* handed to the in-process cache
through_cache_never(kind) == FALSE
through_cache(kind) == kind \in {"bin_paths", "exec_env"}

\* the map of the in-process cache an operation uses
MemoKind(o) == IF o = "list_bin_paths" THEN "bin_paths" ELSE "exec_env"

\* the key has a value; the threads that are initializing the key
Initialized(kind, tv) == \E e \in memo[kind] : e.tv = tv
Initializing(kind, tv) ==
    {u \in Threads : pc[u] = "fetch" /\ MemoKind(op[u]) = kind /\ call_tv[u] = tv}

\* a thread calls list_bin_paths or exec_env for a tool-version
call_per_version(t, o, tv) ==
    /\ pc[t] = "idle"
    /\ t \in cfg.threads
    /\ calls < cfg.max_calls
    /\ calls' = calls + 1
    /\ pc' = [pc EXCEPT ![t] = o]
    /\ op' = [op EXCEPT ![t] = o]
    /\ res' = [res EXCEPT ![t] = "none"]
    /\ log' = [log EXCEPT ![t] = <<>>]
    /\ call_tv' = [call_tv EXCEPT ![t] = tv]
    /\ UNCHANGED <<fsVars, lock, cfg, iv, diskVars, procVars, force, prev, repo>>

\* list_bin_paths: straight to the cache
list_bin_paths_enter(t) ==
    /\ pc[t] = "list_bin_paths"
    /\ Goto(t, "cache")
    /\ UNCHANGED <<fsVars, lock, cfg, iv, diskVars, procVars, op, force, log, calls,
                   prev, repo, call_tv>>

\* exec_env: empty for System, without the script and inside a plugin
\* script, else to the cache
exec_env_enter(t) ==
    /\ pc[t] = "exec_env"
    /\ IF is_system(call_tv[t]) \/ ~script_exists("exec-env") \/ nested_in_script
       THEN Return(t, "ok") /\ Logged(t, <<EvA("value", <<>>)>>)
       ELSE Goto(t, "cache") /\ UNCHANGED log
    /\ UNCHANGED <<fsVars, lock, cfg, iv, diskVars, procVars, op, force, calls,
                   prev, repo, call_tv>>

\* the in-process cache is asked for the key: its value when it has one;
\* else the thread initializes the key, after the thread that is
\* initializing it now, if any
cache_get(t) ==
    /\ pc[t] = "cache"
    /\ LET kind == MemoKind(op[t])
           tv == call_tv[t]
       IN  IF through_cache(kind) /\ Initialized(kind, tv)
           THEN LET r == memo_get(kind, tv, Returned("none", <<>>, <<>>))
                IN  Return(t, r.res) /\ Logged(t, r.log \o <<EvA("value", r.val)>>)
           ELSE /\ through_cache(kind) => Initializing(kind, tv) = {}
                /\ Goto(t, "fetch") /\ UNCHANGED log
    /\ UNCHANGED <<fsVars, lock, cfg, iv, diskVars, procVars, op, force, calls,
                   prev, repo, call_tv>>

\* the fetch returns: the cache keeps the value of a successful fetch
Fetched(t, fetched) ==
    LET kind == MemoKind(op[t])
        tv == call_tv[t]
        r == IF through_cache(kind)
             THEN memo_get(kind, tv, fetched)
             ELSE [res |-> fetched.res, val |-> fetched.val, log |-> fetched.log,
                   write |-> FALSE]
    IN  /\ Return(t, r.res)
        /\ Logged(t, r.log \o <<EvA("value", r.val)>>)
        /\ Memoized(kind, tv, r)
        /\ UNCHANGED <<fsVars, lock, cfg, iv, diskVars, env, q, cmd, op, force, calls,
                       prev, repo, call_tv>>

fetch_bin_paths_returns(t, stdout, status) ==
    /\ pc[t] = "fetch" /\ op[t] = "list_bin_paths"
    /\ Fetched(t, fetch_bin_paths(call_tv[t], stdout, status))

fetch_exec_env_returns(t, patches, status) ==
    /\ pc[t] = "fetch" /\ op[t] = "exec_env"
    /\ Fetched(t, fetch_exec_env(call_tv[t], patches, status))

\* ------------------------------------------------------- specification

IvIdle == [pc |-> "idle", tv |-> NoToolVersion, log |-> <<>>, res |-> "none", calls |-> 0]

\* every configuration of one plugin: the URL sources, auto-confirm, the
\* scripts of the remote repository, the manifest read at construction
Configs(threads, max_calls, trace) ==
    [repo_url : UserRepoUrls, registry : RegistryRepoUrls, yes : BOOLEAN,
     remote_scripts : SUBSET WarmScripts,
     toml : [list_aliases : ManifestData, list_legacy_filenames : ManifestData],
     threads : {threads}, max_calls : {max_calls}, trace : {trace}]

\* the configurations the concurrent specifications start from: the remote
\* repository has all the scripts or none, and no manifest data
ConcurrentConfigs ==
    {c \in Configs(Threads, MaxCalls, FALSE) :
        /\ c.remote_scripts \in {{}, WarmScripts}
        /\ c.toml = NoManifest}

\* no thread has made a call, install_version has not been called
NoCalls ==
    /\ pc = [t \in Threads |-> "idle"]
    /\ op = [t \in Threads |-> "none"]
    /\ force = [t \in Threads |-> FALSE]
    /\ res = [t \in Threads |-> "none"]
    /\ log = [t \in Threads |-> <<>>]
    /\ calls = 0
    /\ prev = [t \in Threads |-> NoCall]
    /\ repo = [t \in Threads |-> NoRepo]
    /\ call_tv = [t \in Threads |-> NoToolVersion]
    /\ iv = IvIdle

InitWith(configs, script_sets, cache_dirs) ==
    /\ cfg \in configs
    /\ plugin_path \in {AbsentPath} \cup {ClonedPath(ss) : ss \in script_sets}
    /\ plugin_path.exists /\ cfg.threads # {} => plugin_path.scripts = cfg.remote_scripts
    /\ ~plugin_path.exists => cfg.toml = NoManifest
    /\ cache_dir \in cache_dirs
    /\ installs_dir = {"1.0.0"}
    /\ downloads_dir = {"1.0.0"}
    /\ lock = 0
    /\ NoCalls
    /\ now = 0
    /\ mtime = [f \in Sentinels |-> 0]
    /\ cache_meta = [c \in QueryCaches |-> StoredAt0(c, TRUE)]
    /\ legacy = LegacyUncached(Stdout2)
    /\ memo = NoMemo
    /\ env = [rtx_script |-> FALSE]
    /\ q = QIdle
    /\ cmd = CmdIdle

\* one thread makes the calls, one after the other, under every configuration
Init == InitWith(Configs({1}, MaxCalls, TRUE), SUBSET WarmScripts, {{}, CacheFiles})

\* the threads call concurrently
InitConcurrent == InitWith(ConcurrentConfigs, SUBSET WarmScripts, {{}, CacheFiles})

Outcomes == {"hit", "ok", "fail"}

EnsureInstalledNext ==
    \E t \in Threads :
        \/ \E f \in BOOLEAN : call_ensure_installed(t, f)
        \/ ensure_installed(t)
        \/ \E a \in {"yes", "no", "error"} : confirm(t, a)
        \/ get_lock(t)
        \/ install(t)
        \/ uninstall(t)
        \/ \E ok \in BOOLEAN : rmdir(t, ok)
        \/ \E ok \in BOOLEAN : git_clone(t, ok)
        \/ \E ok \in BOOLEAN : git_checkout(t, ok)
        \/ \E o \in Outcomes : warm_list_all(t, o)
        \/ \E o \in Outcomes : warm_aliases(t, o)
        \/ \E o \in Outcomes : warm_legacy(t, o)
        \/ \E ok \in BOOLEAN : install_finish(t, ok)

Next ==
    \/ EnsureInstalledNext
    \/ \E t \in Threads : call_uninstall(t)

Spec == Init /\ [][Next]_vars

SpecConcurrent == InitConcurrent /\ [][Next]_vars

SpecEnsureInstalled == InitConcurrent /\ [][EnsureInstalledNext]_vars

\* install_version on a plugin with any of the version scripts, or none
VersionScripts == {"download", "install", "uninstall"}
NoThreads ==
    [repo_url |-> None, registry |-> None, yes |-> FALSE, remote_scripts |-> {},
     toml |-> NoManifest, threads |-> {}, max_calls |-> 0,
     trace |-> FALSE]

InitInstallVersion == InitWith({NoThreads}, SUBSET VersionScripts, {{}})

InstallVersionNext ==
    \/ \E tv \in InstallableToolVersions : install_version(tv)
    \/ \E code \in ExitCodes : download_exits(code)
    \/ \E code \in ExitCodes : install_exits(code)

SpecInstallVersion == InitInstallVersion /\ [][InstallVersionNext]_vars

\* the cached queries of a plugin with any of the query scripts and any
\* manifest, or of a plugin that is not installed; the cache files are
\* missing, or left by an earlier process, decodable or not
QueryScriptSets == {{}} \cup {{f} : f \in QueryScripts}
QueryManifests ==
    {NoManifest,
     [list_aliases |-> Some(Stdout1), list_legacy_filenames |-> Some(Stdout1)],
     [list_aliases |-> Some(AliasData2),
      list_legacy_filenames |-> None]}
InitQueries ==
    /\ cfg \in {[NoThreads EXCEPT !.toml = m] : m \in QueryManifests}
    /\ plugin_path \in {AbsentPath} \cup {ClonedPath(ss) : ss \in QueryScriptSets}
    /\ ~plugin_path.exists => cfg.toml = NoManifest
    /\ cache_dir \in {{}, CacheFiles}
    /\ installs_dir = {"1.0.0"}
    /\ downloads_dir = {"1.0.0"}
    /\ lock = 0
    /\ NoCalls
    /\ now = 0
    /\ mtime = [f \in Sentinels |-> 0]
    /\ \E d \in BOOLEAN : cache_meta = [c \in QueryCaches |-> StoredAt0(c, d)]
    /\ cache_dir = {} => \A c \in QueryCaches : cache_meta[c].decodes
    /\ legacy = LegacyUncached(Stdout2)
    /\ memo = NoMemo
    /\ env = [rtx_script |-> FALSE]
    /\ q = QIdle
    /\ cmd = CmdIdle

\* a behaviour follows one operation of the plugin, called again and again
Repeats(name) == q.op \in {"none", name}

QueriesNext ==
    \/ \E so \in Stdouts, st \in RunStatuses \cup {"timeout"}, mo \in BOOLEAN :
           Repeats("list_remote_versions") /\ list_remote_versions(so, st, mo)
    \/ \E so \in Stdouts, st \in RunStatuses :
           Repeats("latest_stable_version") /\ latest_stable_version(so, st)
    \/ \E so \in Stdouts, st \in RunStatuses :
           Repeats("get_aliases") /\ get_aliases(so, st)
    \/ \E so \in Stdouts, st \in RunStatuses :
           Repeats("legacy_filenames") /\ legacy_filenames(so, st)
    \/ tick
    \/ \E f \in Sentinels : update(f)
    \/ reclone

SpecQueries == InitQueries /\ [][QueriesNext]_vars

\* parse_legacy_file on a legacy file that is written from time to time, by
\* a plugin with or without bin/parse-legacy-file
InitLegacyFile ==
    /\ cfg = NoThreads
    /\ plugin_path \in {ClonedPath({}), ClonedPath({"parse-legacy-file"})}
    /\ cache_dir = {}
    /\ installs_dir = {"1.0.0"}
    /\ downloads_dir = {"1.0.0"}
    /\ lock = 0
    /\ NoCalls
    /\ now = 0
    /\ mtime = [f \in Sentinels |-> 0]
    /\ cache_meta = [c \in QueryCaches |-> StoredAt0(c, TRUE)]
    /\ legacy \in {LegacyUncached(content) : content \in Contents}
    /\ memo = NoMemo
    /\ env = [rtx_script |-> FALSE]
    /\ q = QIdle
    /\ cmd = CmdIdle

LegacyFileNext ==
    \/ \E st \in RunStatuses : parse_legacy_file(st)
    \/ \E content \in Contents : write_legacy_file(content)
    \/ tick

SpecLegacyFile == InitLegacyFile /\ [][LegacyFileNext]_vars

\* list_bin_paths and exec_env of every tool-version, by a plugin that is
\* installed or not, with or without the two scripts, in a process started
\* by the user or by a plugin script
EnvScripts == {"list-bin-paths", "exec-env"}
InitExecEnv ==
    /\ cfg = NoThreads
    /\ plugin_path \in {AbsentPath} \cup {ClonedPath(ss) : ss \in SUBSET EnvScripts}
    /\ cache_dir = {}
    /\ installs_dir = {"1.0.0"}
    /\ downloads_dir = {"1.0.0"}
    /\ lock = 0
    /\ NoCalls
    /\ now = 0
    /\ mtime = [f \in Sentinels |-> 0]
    /\ cache_meta = [c \in QueryCaches |-> StoredAt0(c, TRUE)]
    /\ legacy = LegacyUncached(Stdout2)
    /\ memo = NoMemo
    /\ env \in [rtx_script : BOOLEAN]
    /\ q = QIdle
    /\ cmd = CmdIdle

ExecEnvNext ==
    \/ \E tv \in ToolVersions, so \in Stdouts, st \in RunStatuses :
           list_bin_paths(tv, so, st)
    \/ \E tv \in ToolVersions, ps \in EnvDiffs, st \in RunStatuses :
           exec_env(tv, ps, st)

SpecExecEnv == InitExecEnv /\ [][ExecEnvNext]_vars

\* every operation that runs a script, by a plugin that is not installed,
\* has no script, one script or all of them; a behaviour follows one
\* operation
OperationScripts ==
    QueryScripts \cup VersionScripts \cup EnvScripts \cup {"parse-legacy-file"}
OperationScriptSets == {{}, OperationScripts} \cup {{f} : f \in OperationScripts}
InitOperations ==
    /\ cfg = NoThreads
    /\ plugin_path \in {AbsentPath} \cup {ClonedPath(ss) : ss \in OperationScriptSets}
    /\ cache_dir \in {{}, CacheFiles}
    /\ installs_dir = {"1.0.0"}
    /\ downloads_dir = {"1.0.0"}
    /\ lock = 0
    /\ NoCalls
    /\ now = 0
    /\ mtime = [f \in Sentinels |-> 0]
    /\ cache_meta = [c \in QueryCaches |-> StoredAt0(c, TRUE)]
    /\ legacy = LegacyUncached(Stdout2)
    /\ memo = NoMemo
    /\ env = [rtx_script |-> FALSE]
    /\ q = QIdle
    /\ cmd = CmdIdle

OperationsNext ==
    \/ \E st \in RunStatuses, mo \in BOOLEAN :
           Repeats("list_remote_versions") /\ iv.calls = 0
           /\ list_remote_versions(Stdout1, st, mo)
    \/ \E st \in RunStatuses :
           Repeats("latest_stable_version") /\ iv.calls = 0
           /\ latest_stable_version(Stdout1, st)
    \/ \E st \in RunStatuses :
           Repeats("get_aliases") /\ iv.calls = 0 /\ get_aliases(Stdout1, st)
    \/ \E st \in RunStatuses :
           Repeats("legacy_filenames") /\ iv.calls = 0 /\ legacy_filenames(Stdout1, st)
    \/ \E st \in RunStatuses :
           Repeats("parse_legacy_file") /\ iv.calls = 0 /\ parse_legacy_file(st)
    \/ \E tv \in ToolVersions, st \in RunStatuses :
           Repeats("uninstall_version") /\ iv.calls = 0 /\ uninstall_version(tv, st)
    \/ \E tv \in ToolVersions, st \in RunStatuses :
           Repeats("list_bin_paths") /\ iv.calls = 0 /\ list_bin_paths(tv, Stdout1, st)
    \/ \E tv \in ToolVersions, ps \in EnvDiffs, st \in RunStatuses :
           Repeats("exec_env") /\ iv.calls = 0 /\ exec_env(tv, ps, st)
    \/ \E tv \in InstallableToolVersions : q.calls = 0 /\ install_version(tv)
    \/ \E code \in ExitCodes : download_exits(code)
    \/ \E code \in ExitCodes : install_exits(code)

SpecOperations == InitOperations /\ [][OperationsNext]_vars

\* ls-remote TOOL[@VERSION] [PREFIX], for a plugin that is installed or not,
\* with or without a repository to clone and a list-all script
LsRemoteConfigs ==
    {c \in Configs({1}, 1, FALSE) :
        /\ c.repo_url \in {None, Some(<<"a">>)}
        /\ c.registry \in {None, Some(<<"b">>)}
        /\ c.remote_scripts \in {{}, {"list-all"}}
        /\ c.toml = NoManifest}
InitLsRemote ==
    /\ InitWith(LsRemoteConfigs, {{}, {"list-all"}}, {{}, CacheFiles})
    /\ cache_dir # {} => plugin_path.exists

LsRemoteNext ==
    \/ \E tvr \in LsRemoteTvrs, prefix \in LsRemotePrefixes : ls_remote(tvr, prefix)
    \/ \E t \in Threads :
        \/ get_plugin(t)
        \/ ensure_installed(t)
        \/ \E a \in {"yes", "no", "error"} : confirm(t, a)
        \/ get_lock(t)
        \/ install(t)
        \/ \E ok \in BOOLEAN : git_clone(t, ok)
        \/ \E o \in Outcomes : warm_list_all(t, o)
        \/ \E o \in Outcomes : warm_aliases(t, o)
        \/ \E o \in Outcomes : warm_legacy(t, o)
        \/ \E ok \in BOOLEAN : install_finish(t, ok)
        \/ ls_remote_no_plugin(t)
        \/ \E so \in {LsStdout}, st \in RunStatuses, mo \in BOOLEAN :
               ls_remote_list(t, so, st, mo)
    \/ ls_remote_print

SpecLsRemote == InitLsRemote /\ [][LsRemoteNext]_vars

\* uninstall of one or two tool-versions, installed or not, with and
\* without --dry-run, by a plugin with or without bin/uninstall
InitUninstallCommand ==
    /\ cfg = NoThreads
    /\ plugin_path \in {ClonedPath({}), ClonedPath({"uninstall"})}
    /\ cache_dir = {}
    /\ installs_dir \in {{}, {"1.0.0"}, {"1.0.0", "0.9.0"}}
    /\ downloads_dir = installs_dir
    /\ lock = 0
    /\ NoCalls
    /\ now = 0
    /\ mtime = [f \in Sentinels |-> 0]
    /\ cache_meta = [c \in QueryCaches |-> StoredAt0(c, TRUE)]
    /\ legacy = LegacyUncached(Stdout2)
    /\ memo = NoMemo
    /\ env = [rtx_script |-> FALSE]
    /\ q = QIdle
    /\ cmd = CmdIdle

UninstallCommandNext ==
    \/ \E tvs \in UninstallLists, dry_run \in BOOLEAN : uninstall_command(tvs, dry_run)
    \/ uninstall_skip
    \/ \E st \in RunStatuses : uninstall_run(st)
    \/ \E ok \in BOOLEAN : uninstall_remove(ok)
    \/ uninstall_dry_run
    \/ \E failing \in 0..3 : uninstall_finish(failing)

SpecUninstallCommand == InitUninstallCommand /\ [][UninstallCommandNext]_vars

\* the environment composed for every tool-version, with and without tool
\* options and a project root
InitScriptEnv == InitWith({NoThreads}, {{}}, {{}})

ScriptEnvNext ==
    \E tv \in ToolVersions, opts \in ToolOpts, root \in ProjectRoots :
        compose_env(tv, opts, root)

SpecScriptEnv == InitScriptEnv /\ [][ScriptEnvNext]_vars

\* list_remote_versions step by step: bin/list-all runs while the clock
\* advances, and exits in time or hangs. The clock keeps advancing and the
\* timer of run_with_timeout fires once the time is up.
InitListAll == InitWith({NoThreads}, {{}, {"list-all"}}, {{}, CacheFiles})

ListAllNext ==
    \/ \E mo \in BOOLEAN : list_remote_versions_starts(mo)
    \/ \E so \in Stdouts, st \in RunStatuses : list_all_exits(so, st)
    \/ list_all_killed
    \/ tick

SpecListAll ==
    InitListAll /\ [][ListAllNext]_vars /\ WF_vars(tick) /\ WF_vars(list_all_killed)

\* concurrent ensure_installed calls whose threads keep running: a thread
\* that waits for the lock or holds it takes its next step (git and the
\* scripts terminate, a free lock is handed to a waiting thread)
LockedStep(t) ==
    \/ get_lock(t)
    \/ install(t)
    \/ uninstall(t)
    \/ \E ok \in BOOLEAN : rmdir(t, ok)
    \/ \E ok \in BOOLEAN : git_clone(t, ok)
    \/ \E ok \in BOOLEAN : git_checkout(t, ok)
    \/ \E o \in Outcomes : warm_list_all(t, o)
    \/ \E o \in Outcomes : warm_aliases(t, o)
    \/ \E o \in Outcomes : warm_legacy(t, o)
    \/ \E ok \in BOOLEAN : install_finish(t, ok)

SpecEnsureInstalledFair ==
    /\ InitConcurrent
    /\ [][EnsureInstalledNext]_vars
    /\ \A t \in Threads : WF_vars(LockedStep(t))

\* list_bin_paths and exec_env called by the threads, repeatedly and at
\* the same time, for two tool-versions and System, by a plugin with or
\* without the two scripts
PerVersionTvs == {tv \in ToolVersions : tv.request \in {"Version", "Sub", "System"}}
InitPerVersion ==
    /\ cfg = [NoThreads EXCEPT !.threads = Threads, !.max_calls = MaxCalls + 1,
                               !.trace = TRUE]
    /\ plugin_path \in {ClonedPath(ss) : ss \in SUBSET EnvScripts}
    /\ cache_dir = {}
    /\ installs_dir = {"1.0.0"}
    /\ downloads_dir = {"1.0.0"}
    /\ lock = 0
    /\ NoCalls
    /\ now = 0
    /\ mtime = [f \in Sentinels |-> 0]
    /\ cache_meta = [c \in QueryCaches |-> StoredAt0(c, TRUE)]
    /\ legacy = LegacyUncached(Stdout2)
    /\ memo = NoMemo
    /\ env \in [rtx_script : BOOLEAN]
    /\ q = QIdle
    /\ cmd = CmdIdle

PerVersionNext ==
    \E t \in Threads :
        \/ \E tv \in PerVersionTvs : call_per_version(t, "list_bin_paths", tv)
        \/ \E tv \in PerVersionTvs : call_per_version(t, "exec_env", tv)
        \/ list_bin_paths_enter(t)
        \/ exec_env_enter(t)
        \/ cache_get(t)
        \/ \E so \in Stdouts, st \in RunStatuses : fetch_bin_paths_returns(t, so, st)
        \/ \E ps \in EnvDiffs, st \in RunStatuses : fetch_exec_env_returns(t, ps, st)

SpecPerVersion == InitPerVersion /\ [][PerVersionNext]_vars

\* ------------------------------------------------------- properties

IsPrefix(s, t) == Len(s) <= Len(t) /\ \A i \in 1..Len(s) : s[i] = t[i]

\* an event without its details: its kind and, for a script, which script
EventName(e) == IF e.k \in {"run", "exit"} THEN <<e.k, e.a[1]>> ELSE <<e.k, "">>
EventNames(l) == [i \in 1..Len(l) |-> EventName(l[i])]

IvRan(script) == \E i \in 1..Len(iv.log) : EventName(iv.log[i]) = <<"run", script>>

DownloadThenInstall ==
    <<<<"downloading", "">>, <<"run", "download">>, <<"exit", "download">>,
      <<"installing", "">>, <<"run", "install">>, <<"exit", "install">>>>
InstallOnly ==
    <<<<"installing", "">>, <<"run", "install">>, <<"exit", "install">>>>

\* C1: in every install_version call the download script is run iff
\* bin/download exists, and the observable sequence is a prefix of
\* 'downloading', run download, download exits, 'installing', run install
\* (without the first three when bin/download is missing): install is never
\* started before, or without, the download that precedes it.
C1_DownloadIffExistsThenInstall ==
    iv.calls > 0 =>
        /\ IvRan("download") <=> script_exists("download")
        /\ IsPrefix(EventNames(iv.log),
                    IF script_exists("download") THEN DownloadThenInstall ELSE InstallOnly)

C1_Witness ==
    /\ iv.pc = "idle" /\ iv.res = "ok"
    /\ EventNames(iv.log) = DownloadThenInstall

\* C2: a non-zero exit of the download script ends install_version with an
\* error, progress never becomes 'installing' and install is never run; a
\* non-zero exit of the install script ends install_version with an error.
C2_NonZeroExitIsFatal ==
    \A i \in 1..Len(iv.log) :
        iv.log[i].k = "exit" /\ iv.log[i].c # 0 =>
            /\ iv.pc = "idle" /\ iv.res = "ScriptFailed"
            /\ i = Len(iv.log)
            /\ iv.log[i].a[1] = "download" =>
                   /\ ~IvRan("install")
                   /\ \A j \in 1..Len(iv.log) : iv.log[j].k # "installing"

C2_Witness ==
    /\ iv.res = "ScriptFailed"
    /\ \E i \in 1..Len(iv.log) : iv.log[i] = EvC("exit", <<"download">>, 1)

\* the steps of install, made by a thread inside ensure_installed
InstallSteps ==
    {"install", "uninstall", "rmdir", "clone", "checkout", "list_all", "aliases",
     "legacy", "sha"}
InInstall(t) == op[t] = "ensure_installed" /\ pc[t] \in InstallSteps

\* thread t takes a step of its call
Steps(t) == pc[t] # "idle" /\ pc'[t] # pc[t]
\* thread t returns from its call with result r
Returns(t, r) == pc[t] # "idle" /\ pc'[t] = "idle" /\ res'[t] = r

HasEvent(t, e) == \E i \in 1..Len(log[t]) : log[t][i] = e
HasKind(t, k) == \E i \in 1..Len(log[t]) : log[t][i].k = k

\* C3: a thread inside install (uninstall, clone, checkout, cache warming)
\* holds the lock on plugin_path, forced or not, so at most one thread at a
\* time is inside install.
C3_InstallHoldsLock ==
    /\ \A t \in Threads : InInstall(t) => lock = t
    /\ Cardinality({t \in Threads : InInstall(t)}) <= 1

C3_Witness ==
    \E t, u \in Threads :
        /\ InInstall(t) /\ force[t] /\ pc[t] = "clone"
        /\ op[u] = "ensure_installed" /\ pc[u] = "lock"

\* C4: ensure_installed with force = false on an installed plugin returns
\* success at once: no prompt, no lock, nothing uninstalled or cloned, no
\* script run, plugin_path and the caches unchanged.
C4_AlreadyInstalledReturnsAtOnce ==
    [][\A t \in Threads :
          pc[t] = "ensure_installed" /\ Steps(t) /\ ~force[t] /\ is_installed =>
              /\ Returns(t, "ok")
              /\ log'[t] = <<>>
              /\ UNCHANGED <<plugin_path, cache_dir, installs_dir, downloads_dir, lock>>]_vars

C4_Witness ==
    \E t \in Threads :
        /\ op[t] = "ensure_installed" /\ ~force[t]
        /\ pc[t] = "idle" /\ res[t] = "ok" /\ log[t] = <<>>
        /\ is_installed /\ cfg.trace

\* C6: when ensure_installed returns success, forced or not and whatever
\* the other ensure_installed calls do, plugin_path exists at that moment.
C6_SuccessMeansInstalled ==
    [][\A t \in Threads :
          op[t] = "ensure_installed" /\ Returns(t, "ok") => plugin_path'.exists]_vars

C6_Witness ==
    \E t, u \in Threads :
        /\ op[t] = "ensure_installed" /\ force[t] /\ pc[t] = "idle" /\ res[t] = "ok"
        /\ InInstall(u) /\ pc[u] = "sha"
        /\ is_installed

\* the prompt is shown in this step of thread t
Prompts(t) == pc[t] = "ensure_installed" /\ pc'[t] = "confirm"

\* the user declined: the call failed with PluginNotInstalled before the
\* lock, a clone or a script, and the plugin is still not installed
DeclineFails ==
    \A t \in Threads :
        HasEvent(t, EvA("answer", <<"no">>)) =>
            /\ pc[t] = "idle" /\ res[t] = "PluginNotInstalled"
            /\ log[t][Len(log[t])] = EvA("answer", <<"no">>)
            /\ ~HasKind(t, "locked") /\ ~HasKind(t, "cloning") /\ ~HasKind(t, "run")
            /\ lock = 0
            /\ ~is_installed

\* C5 as stated: ensure_installed prompts exactly when force = false, the
\* plugin is not installed, no repo_url override is set and auto-confirm is
\* off; a decline fails with PluginNotInstalled without lock, clone or script.
C5_PromptExactlyWhen ==
    /\ []DeclineFails
    /\ [][\A t \in Threads :
             pc[t] = "ensure_installed" /\ Steps(t) =>
                 (Prompts(t) <=>
                      ~force[t] /\ ~is_installed /\ cfg.repo_url = None /\ ~cfg.yes)]_vars

\* C5, amended: ensure_installed prompts exactly when force = false, the
\* plugin is not installed, no repo_url override is set, auto-confirm is off
\* and the registry has a URL for the plugin (without one the call fails with
\* the no-repository error and no prompt); a decline fails with
\* PluginNotInstalled without lock, clone or script.
C5_PromptExactlyWhenRegistryUrl ==
    /\ []DeclineFails
    /\ [][\A t \in Threads :
             pc[t] = "ensure_installed" /\ Steps(t) =>
                 /\ Prompts(t) <=>
                        /\ ~force[t] /\ ~is_installed
                        /\ cfg.repo_url = None /\ ~cfg.yes
                        /\ cfg.registry # None
                 /\ ~force[t] /\ ~is_installed /\ cfg.repo_url = None /\ ~cfg.yes
                        /\ cfg.registry = None
                    => Returns(t, "NoRepoUrl") /\ log'[t] = <<>>]_vars

C5_Witness ==
    \E t \in Threads :
        /\ res[t] = "PluginNotInstalled"
        /\ log[t] = <<EvA("prompt", cfg.registry[1]), EvA("answer", <<"no">>)>>

\* uninstall returns success to its caller in this step of thread t
UninstallReturnsOk(t) ==
    /\ pc[t] \in {"uninstall", "rmdir"}
    /\ IF op[t] = "uninstall" THEN Returns(t, "ok") ELSE pc'[t] = "clone"

\* C7: after uninstall returns success the plugin is not installed; on a
\* plugin that is not installed uninstall returns success, removes nothing
\* and sets no progress message; a second uninstall after a successful one
\* changes nothing.
C7_UninstallIdempotent ==
    /\ [](\A t \in Threads :
             /\ prev[t] = [op |-> "uninstall", res |-> "ok"]
             /\ op[t] = "uninstall" /\ pc[t] = "idle"
             => res[t] = "ok" /\ log[t] = <<>> /\ ~is_installed)
    /\ [][\A t \in Threads :
             /\ UninstallReturnsOk(t) => ~plugin_path'.exists
             /\ pc[t] = "uninstall" /\ Steps(t) /\ ~is_installed =>
                    /\ UninstallReturnsOk(t)
                    /\ log'[t] = log[t]
                    /\ UNCHANGED fsVars]_vars

C7_Witness ==
    \E t \in Threads :
        /\ prev[t] = [op |-> "uninstall", res |-> "ok"]
        /\ op[t] = "uninstall" /\ pc[t] = "idle" /\ res[t] = "ok"

\* C8: uninstall removes plugin_path only: the installs, downloads and
\* cache directories are the same after every step of uninstall.
C8_UninstallRemovesOnlyPluginPath ==
    [][\A t \in Threads :
          pc[t] \in {"uninstall", "rmdir"} /\ Steps(t) =>
              UNCHANGED <<installs_dir, downloads_dir, cache_dir>>]_vars

C8_Witness ==
    \E t \in Threads :
        /\ op[t] = "uninstall" /\ pc[t] = "idle" /\ res[t] = "ok"
        /\ HasEvent(t, EvA("remove_all", <<"ok">>))
        /\ ~is_installed
        /\ cache_dir = CacheFiles /\ installs_dir # {} /\ downloads_dir # {}

\* positions of the events of thread t's call
At(t, k) == {i \in 1..Len(log[t]) : log[t][i].k = k}
WarmKinds ==
    {"loading plugin remote versions", "list_remote_versions", "getting plugin aliases",
     "get_aliases", "getting plugin legacy filenames", "legacy_filenames", "run", "finish"}
WarmAt(t) == {i \in 1..Len(log[t]) : log[t][i].k \in WarmKinds}
ClonedAt(t) == {i \in 1..Len(log[t]) : log[t][i] = EvA("git_clone", <<"ok">>)}

\* the repository string install resolves has the form URL#REF
RepositoryHasRef(r) == \E i \in 1..Len(r) : r[i] = "#"

\* C9: when install finds the plugin installed, the uninstall completes
\* before the clone starts, and no clone is attempted while plugin_path
\* exists; a ref is checked out iff the repository is URL#REF, after the
\* clone and before any cache warming.
C9_UninstallCloneCheckoutOrder ==
    \A t \in Threads :
        op[t] = "ensure_installed" =>
            /\ pc[t] = "clone" => ~is_installed
            /\ \A c \in At(t, "cloning") :
                   \A u \in At(t, "uninstalling") :
                       \E r \in At(t, "remove_all") :
                           u < r /\ r < c /\ log[t][r].a = <<"ok">>
            /\ ClonedAt(t) # {} /\ pc[t] # "checkout" =>
                   (At(t, "git_update") # {} <=> RepositoryHasRef(get_repo_url[1]))
            /\ \A g \in At(t, "git_update") :
                   /\ \E c \in ClonedAt(t) : c < g
                   /\ \A w \in WarmAt(t) : g < w

C9_Witness ==
    \E t \in Threads :
        /\ op[t] = "ensure_installed" /\ pc[t] = "sha"
        /\ HasKind(t, "uninstalling")
        /\ HasEvent(t, EvA("git_update", <<"ok">>))
        /\ HasEvent(t, EvA("run", <<"list-all">>))

\* the repository of the claim: the override when set, else the registry's
ClaimedRepository == IF cfg.repo_url # None THEN cfg.repo_url[1] ELSE cfg.registry[1]
ClaimedUrl ==
    IF RepositoryHasRef(ClaimedRepository)
    THEN SubSeq(ClaimedRepository, 1, (CHOOSE i \in 1..Len(ClaimedRepository) :
                                          ClaimedRepository[i] = "#") - 1)
    ELSE ClaimedRepository

\* C10: install clones the user's repo_url override when one is set, else
\* the registry's URL; when neither exists install fails with the
\* no-repository error before any uninstall or clone and leaves plugin_path
\* as it was.
C10_RepositoryResolution ==
    /\ [](\A t \in Threads :
             /\ \A c \in At(t, "cloning") : log[t][c].a = ClaimedUrl
             /\ res[t] = "NoRepoUrl" =>
                    /\ cfg.repo_url = None /\ cfg.registry = None
                    /\ At(t, "uninstalling") = {} /\ At(t, "remove_all") = {}
                    /\ At(t, "cloning") = {})
    /\ [][\A t \in Threads :
             pc[t] = "install" /\ Steps(t) /\ cfg.repo_url = None /\ cfg.registry = None =>
                 /\ Returns(t, "NoRepoUrl")
                 /\ UNCHANGED fsVars]_vars

C10_Witness ==
    \E t \in Threads :
        /\ op[t] = "ensure_installed" /\ force[t]
        /\ pc[t] = "idle" /\ res[t] = "NoRepoUrl" /\ HasKind(t, "locked")
        /\ is_installed

\* the cached queries install has called so far, in the order of the calls
QueryKinds == {"list_remote_versions", "get_aliases", "legacy_filenames"}
QueryScript(k) ==
    CASE k = "list_remote_versions" -> "list-all"
      [] k = "get_aliases" -> "list-aliases"
      [] OTHER -> "list-legacy-filenames"
QueriesCalled(t) == SelectSeq([i \in 1..Len(log[t]) |-> log[t][i].k], LAMBDA k : k \in QueryKinds)
\* the queries install makes on a clone with the given scripts
QueriesFor(scripts) ==
    SelectSeq(<<"list_remote_versions", "get_aliases", "legacy_filenames">>,
              LAMBDA k : QueryScript(k) \in scripts)
\* the warming steps thread t has behind it
WarmingDone(t) ==
    CASE pc[t] = "aliases" -> {"list_remote_versions"}
      [] pc[t] = "legacy" -> {"list_remote_versions", "get_aliases"}
      [] pc[t] = "sha" \/ HasKind(t, "finish") -> QueryKinds
      [] OTHER -> {}

\* C11: after the clone (and the checkout) install calls list_remote_versions,
\* get_aliases, legacy_filenames in this order, each iff its script exists in
\* the fresh clone; a warming step that fails ends install with an error, and
\* the final message URL#sha comes only after all the warming steps succeeded.
C11_WarmingOrder ==
    \A t \in Threads :
        op[t] = "ensure_installed" =>
            /\ IsPrefix(QueriesCalled(t), QueriesFor(cfg.remote_scripts))
            /\ \A k \in WarmingDone(t) :
                   (\E i \in At(t, k) : TRUE) <=> QueryScript(k) \in cfg.remote_scripts
            /\ \A w \in WarmAt(t) : \E c \in ClonedAt(t) : c < w
            /\ HasKind(t, "failed") =>
                   /\ pc[t] = "idle" /\ res[t] = "ScriptFailed"
                   /\ log[t][Len(log[t])].k = "failed"
                   /\ ~HasKind(t, "finish")
            /\ \A f \in At(t, "finish") :
                   /\ f = Len(log[t])
                   /\ QueriesCalled(t) = QueriesFor(cfg.remote_scripts)
                   /\ log[t][f].a = ClaimedUrl \o <<"#", "sha">>

C11_Witness ==
    \E t \in Threads :
        /\ op[t] = "ensure_installed" /\ pc[t] = "idle" /\ res[t] = "ok"
        /\ QueriesCalled(t) = <<"list_remote_versions", "get_aliases", "legacy_filenames">>
        /\ HasEvent(t, EvA("run", <<"list-legacy-filenames">>))
        /\ HasKind(t, "finish")

\* the operation `name` is called (and returns) in this step
Calls(name) == q'.calls = q.calls + 1 /\ q'.op = name
QRan(l, script) == \E i \in 1..Len(l) : l[i] = EvA("run", <<script>>)
QRanAny(l) == \E i \in 1..Len(l) : l[i].k = "run"

\* C13: after a successful list_remote_versions call, a further call made
\* while the cache file is within the freshness window and plugin_path and
\* bin/list-all (which exist) have not been modified since returns the same
\* list and does not run the list-all script.
C13_RepeatedListRemoteVersions ==
    [][/\ Calls("list_remote_versions")
       /\ q.op = "list_remote_versions" /\ q.res = "ok"
       /\ ~q.modified
       /\ script_exists("list-all")
       /\ now - cache_meta["remote_versions"].mtime <= FreshDuration
       => /\ q'.res = "ok"
          /\ q'.val = q.val
          /\ ~QRanAny(q'.log)]_vars

C13_Witness ==
    /\ q.op = "list_remote_versions" /\ q.calls = 2 /\ q.res = "ok"
    /\ q.log = <<EvA("hit", <<"remote_versions">>)>>
    /\ q.val = split_whitespace(Stdout2)
    /\ script_exists("list-all")
    /\ now = 1 /\ cache_meta["remote_versions"].mtime = 0 /\ ~q.modified

\* a lookup of cache c is made in this step; it is a hit
LookedUp(c) ==
    /\ q'.calls = q.calls + 1
    /\ \E i \in 1..Len(q'.log) : q'.log[i].k \in {"hit", "miss"} /\ q'.log[i].a = <<c>>
Hit(c) == q'.log = <<EvA("hit", <<c>>)>>
\* what the operation makes of the cached value
Delivered(c, v) == IF c = "aliases" THEN collect_map(v) ELSE v

\* the condition of the claim for a hit
ClaimedFresh(c) ==
    /\ c \in cache_dir /\ cache_meta[c].decodes
    /\ mtime["plugin_path"] <= cache_meta[c].mtime
    /\ mtime[CacheScript(c)] <= cache_meta[c].mtime
    /\ c \in {"remote_versions", "latest_stable"} =>
           now - cache_meta[c].mtime <= FreshDuration

\* a lookup is a hit exactly under the claim's condition; a hit returns the
\* stored value and runs nothing; a miss runs the script and a fetched value
\* is stored with the current time and returned
HitExactlyWhenFresh(c) ==
    LookedUp(c) /\ plugin_path.exists /\ script_exists(CacheScript(c)) =>
        /\ Hit(c) <=> ClaimedFresh(c)
        /\ Hit(c) =>
               /\ q'.res = "ok" /\ q'.val = Delivered(c, cache_meta[c].value)
               /\ UNCHANGED <<cache_dir, cache_meta>>
        /\ ~Hit(c) =>
               /\ QRan(q'.log, CacheScript(c))
               /\ q'.res = "ok" =>
                      /\ c \in cache_dir'
                      /\ cache_meta'[c].mtime = now /\ cache_meta'[c].decodes
                      /\ q'.val = Delivered(c, cache_meta'[c].value)
               /\ q'.res # "ok" => UNCHANGED <<cache_dir, cache_meta>>

\* C14 as stated: for each of the four caches a lookup is a hit iff the file
\* exists and decodes, both sentinels' mtimes are <= the file's mtime and
\* (remote versions, latest stable) the file's age is <= the window;
\* otherwise the value is fetched, written and returned; and a file written
\* before a re-clone of the plugin is a miss afterwards.
C14_HitIffFresh ==
    [][\A c \in QueryCaches :
          /\ HitExactlyWhenFresh(c)
          /\ LookedUp(c) /\ script_exists(CacheScript(c)) /\ cache_meta[c].old => ~Hit(c)]_vars

\* C14, amended: the same rule for a hit; a file written before a re-clone
\* of the plugin is a miss afterwards when its mtime is older than the
\* re-clone's (with the same mtime it is still a hit).
C14_HitIffFreshOlderMisses ==
    [][\A c \in QueryCaches :
          /\ HitExactlyWhenFresh(c)
          /\ LookedUp(c) /\ script_exists(CacheScript(c)) /\ cache_meta[c].old
                 /\ cache_meta[c].mtime < mtime["plugin_path"] => ~Hit(c)]_vars

C14_Witness ==
    /\ q.op = "latest_stable_version" /\ q.res = "ok"
    /\ q.log = <<EvA("miss", <<"latest_stable">>), EvA("run", <<"latest-stable">>),
                 EvA("write", <<"latest_stable">>)>>
    /\ "aliases" \in cache_dir /\ cache_meta["aliases"].old
    /\ cache_meta["aliases"].mtime < mtime["plugin_path"]
    /\ ~cache_meta["latest_stable"].old

\* the manifest data of the model, parsed by hand
ExpectedAliases(data) ==
    CASE data = Stdout1 -> (<<"a">> :> <<"1">>)
      [] data = AliasData2 -> (<<"a">> :> <<"2">>)
ExpectedLegacyFilenames(data) ==
    CASE data = Stdout1 -> <<<<"a">>, <<"1">>, <<"b">>>>

\* `name` answers from the manifest data, from nothing, or from the cache
ManifestFirst(name, data, script, c, expected, empty) ==
    Calls(name) =>
        /\ data # None =>
               /\ q'.res = "ok" /\ q'.val = expected /\ q'.log = <<>>
               /\ UNCHANGED <<cache_dir, cache_meta>>
        /\ data = None /\ ~script_exists(script) =>
               /\ q'.res = "ok" /\ q'.val = empty /\ q'.log = <<>>
               /\ UNCHANGED <<cache_dir, cache_meta>>
        /\ LookedUp(c) <=> data = None /\ script_exists(script)

\* C15: with list_aliases.data (list_legacy_filenames.data) in the manifest,
\* get_aliases (legacy_filenames) returns the parse of the data, runs no
\* script and neither reads nor writes the cache, whatever scripts and cache
\* files exist; without data and without the script it returns the empty map
\* (list) and runs nothing; the cached fetch is used only without data and
\* with the script.
C15_ManifestFirst ==
    [][/\ ManifestFirst("get_aliases", cfg.toml.list_aliases, "list-aliases", "aliases",
                        ExpectedAliases(cfg.toml.list_aliases[1]), <<>>)
       /\ ManifestFirst("legacy_filenames", cfg.toml.list_legacy_filenames,
                        "list-legacy-filenames", "legacy_filenames",
                        ExpectedLegacyFilenames(cfg.toml.list_legacy_filenames[1]), <<>>)]_vars

C15_Witness ==
    /\ q.op = "get_aliases" /\ q.res = "ok" /\ q.log = <<>>
    /\ q.val = (<<"a">> :> <<"2">>)
    /\ cfg.toml.list_aliases = Some(AliasData2)
    /\ script_exists("list-aliases") /\ "aliases" \in cache_dir
    /\ cache_meta["aliases"] = StoredAt0("aliases", TRUE)

\* the version of a legacy file's content: what the script prints for it,
\* or without the script the content itself, trimmed
VersionOf(content) ==
    CASE content = <<"v", "1", "\n">> ->
             IF script_exists("parse-legacy-file") THEN <<"1">> ELSE <<"v", "1">>
      [] content = <<" ", "2">> -> <<"2">>

\* parse_legacy_file returns the cached value, running and reading nothing,
\* iff the cache file exists and is not older than the legacy file;
\* otherwise it computes the version, writes it to the cache and returns it
LegacyHitIffNotOlder ==
    Calls("parse_legacy_file") =>
        LET cached == "legacy_txt" \in cache_dir /\ legacy.cache_mtime >= legacy.mtime
        IN  /\ cached =>
                   /\ q'.res = "ok" /\ q'.val = legacy.cache_value
                   /\ q'.log = <<EvA("hit", <<"legacy_txt">>)>>
                   /\ UNCHANGED <<cache_dir, legacy>>
            /\ ~cached =>
                   /\ QRan(q'.log, "parse-legacy-file") <=> script_exists("parse-legacy-file")
                   /\ (\E i \in 1..Len(q'.log) : q'.log[i].k = "read")
                          <=> ~script_exists("parse-legacy-file")
                   /\ q'.res = "ok" =>
                          /\ q'.val = VersionOf(legacy.content)
                          /\ "legacy_txt" \in cache_dir'
                          /\ legacy'.cache_value = q'.val /\ legacy'.cache_mtime = now

\* C16 as stated: the hit rule above, and a parse_legacy_file call made after
\* any write to the legacy file returns the version of the latest content.
C16_LegacyFileCache ==
    [][/\ LegacyHitIffNotOlder
       /\ Calls("parse_legacy_file") /\ q'.res = "ok" =>
              q'.val = VersionOf(legacy.content)]_vars

\* C16, amended: the hit rule above, and a parse_legacy_file call made after
\* a write that left the legacy file with an mtime later than the cache
\* file's returns the version of the latest content (a write within the
\* mtime tick of the cache file is not noticed).
C16_LegacyFileCacheLaterWrite ==
    [][/\ LegacyHitIffNotOlder
       /\ Calls("parse_legacy_file") /\ q'.res = "ok"
              /\ ("legacy_txt" \in cache_dir => legacy.cache_mtime < legacy.mtime) =>
              q'.val = VersionOf(legacy.content)]_vars

C16_Witness ==
    /\ q.op = "parse_legacy_file" /\ q.calls = 2 /\ q.res = "ok"
    /\ q.val = <<"2">> /\ legacy.content = <<" ", "2">>
    /\ q.log[1] = EvA("miss", <<"legacy_txt">>)
    /\ legacy.mtime = 1 /\ legacy.cache_mtime = 1


\* the environment of a tool-version was composed (script_man_for_tv)
Composed(l) == \E i \in 1..Len(l) : l[i].k = "env"
SystemCall(name) == Calls(name) /\ q'.arg = <<"System">>

\* C17: for a tool-version whose request is System, list_bin_paths returns
\* the empty list and exec_env the empty map, whatever the state of the
\* plugin, and neither runs a script nor composes the environment of the
\* tool-version (which panics on System)
C17_SystemIsEmpty ==
    [][/\ SystemCall("list_bin_paths") =>
              /\ q'.res = "ok" /\ q'.val = <<>>
              /\ ~QRanAny(q'.log) /\ ~Composed(q'.log)
       /\ SystemCall("exec_env") =>
              /\ q'.res = "ok" /\ q'.val = <<>>
              /\ ~QRanAny(q'.log) /\ ~Composed(q'.log)]_vars

\* both operations returned for System, by a plugin with both scripts
C17_Witness ==
    /\ q.op = "exec_env" /\ q.arg = <<"System">> /\ q.res = "ok"
    /\ \E e \in memo.bin_paths : e.tv.request = "System" /\ e.val = <<>>
    /\ script_exists("list-bin-paths") /\ script_exists("exec-env")

\* C18: in a process started by a plugin script (__RTX_SCRIPT set), and
\* also when bin/exec-env does not exist, exec_env returns the empty map
\* for every tool-version without a shell, without the script and without
\* reading or filling the per-version cache
C18_NestedExecEnvIsEmpty ==
    [][Calls("exec_env") /\ (env.rtx_script \/ ~script_exists("exec-env")) =>
           /\ q'.res = "ok" /\ q'.val = <<>>
           /\ q'.log = <<>>
           /\ memo' = memo]_vars

\* exec_env returned in a nested process, for a tool-version that is not
\* System, by a plugin with the script
C18_Witness ==
    /\ q.op = "exec_env" /\ q.arg # <<"System">> /\ q.res = "ok"
    /\ env.rtx_script /\ script_exists("exec-env")


\* the events an install_version step appended to its log
NewIvEvents ==
    IF iv'.calls # iv.calls
    THEN iv'.log
    ELSE SubSeq(iv'.log, Len(iv.log) + 1, Len(iv'.log))
\* the events of the plugin operation a step called
NewQEvents == IF q'.calls # q.calls THEN q'.log ELSE <<>>
StartedScripts(l) == {l[i].a[1] : i \in {j \in 1..Len(l) : l[j].k = "run"}}
UngatedScripts == {"list-all", "install"}

\* C12 as stated: no operation starts a script whose file is missing under
\* plugin_path
C12_NoMissingScriptRun ==
    [][\A s \in StartedScripts(NewQEvents) \cup StartedScripts(NewIvEvents) :
           script_exists(s)]_vars

\* C12: no operation starts an optional script whose file is missing:
\* bin/latest-stable, bin/list-aliases, bin/list-legacy-filenames,
\* bin/parse-legacy-file, bin/download, bin/uninstall, bin/list-bin-paths
\* and bin/exec-env are started only where the file exists; bin/list-all and
\* bin/install are started without an existence check, and the operation
\* fails when the file is missing
C12_NoMissingOptionalScriptRun ==
    [][/\ \A s \in StartedScripts(NewQEvents) \cup StartedScripts(NewIvEvents) :
              s \notin UngatedScripts => script_exists(s)
       /\ "list-all" \in StartedScripts(NewQEvents) /\ ~script_exists("list-all")
              => q'.res = "SpawnFailed"
       /\ "install" \in StartedScripts(NewIvEvents) /\ ~script_exists("install")
              => iv'.res = "SpawnFailed"]_vars

\* uninstall_version returned without a script to run
C12_Witness ==
    /\ q.op = "uninstall_version" /\ q.res = "ok" /\ q.log = <<>>
    /\ plugin_path.exists /\ ~script_exists("uninstall")


\* the versions list_remote_versions returned that start with the prefix
\* (all of them without a prefix), in the order returned
KeptIndices(versions, prefix) ==
    {i \in 1..Len(versions) : prefix = None \/ starts_with(versions[i], prefix[1])}
NthKept(versions, prefix, j) ==
    CHOOSE i \in KeptIndices(versions, prefix) :
        Cardinality({k \in KeptIndices(versions, prefix) : k <= i}) = j
PrintsExactly(prefix) ==
    /\ Len(cmd.out) = Cardinality(KeptIndices(q.val, prefix))
    /\ \A j \in 1..Len(cmd.out) : cmd.out[j] = q.val[NthKept(q.val, prefix, j)]
LsRemotePrinted ==
    cmd.pc = "done" /\ cmd.res = "ok" /\ q.op = "list_remote_versions"

\* C19 as stated: the prefix is the version part of TOOL@VERSION whenever
\* one is given, else the positional prefix
C19_LsRemotePrefix ==
    LsRemotePrinted =>
        PrintsExactly(IF cmd.args[1] # None THEN Some(cmd.args[1][1].arg) ELSE cmd.args[2])

\* C19: ls-remote prints, one per line and in the order returned by
\* list_remote_versions, exactly the versions that start with the prefix,
\* and all of them without a prefix; the prefix is the version of
\* TOOL@VERSION when that is a plain version, which takes precedence over
\* the positional prefix, and in every other case (no @VERSION, or a
\* prefix:, ref: request) the positional prefix
C19_LsRemotePrefixOfPlainVersion ==
    LsRemotePrinted =>
        PrintsExactly(IF cmd.args[1] # None /\ cmd.args[1][1].request = "Version"
                      THEN Some(cmd.args[1][1].arg)
                      ELSE cmd.args[2])

\* TOOL@1 with the positional prefix 2 printed 10 and 11 of 10, 2, 11
C19_Witness ==
    /\ LsRemotePrinted
    /\ cmd.args = <<Some([request |-> "Version", arg |-> <<"1">>]), Some(<<"2">>)>>
    /\ q.val = << <<"1", "0">>, <<"2">>, <<"1", "1">> >>
    /\ cmd.out = << <<"1", "0">>, <<"1", "1">> >>


\* an event of the command's output
CmdHas(kind) == \E i \in 1..Len(cmd.out) : cmd.out[i].k = kind
CmdHasFor(kind, arg) == \E i \in 1..Len(cmd.out) : cmd.out[i] = EvA(kind, <<arg>>)

\* a tool-version that is not installed is skipped with a warning:
\* uninstall_version is not called for it, no error is produced and the
\* loop goes on to the next tool-version
SkipsNotInstalled ==
    /\ Calls("uninstall_version") =>
           cmd.todo # <<>> /\ is_version_installed(Head(cmd.todo))
    /\ cmd.pc = "loop" /\ cmd.todo # <<>> /\ ~is_version_installed(Head(cmd.todo))
       /\ cmd' # cmd =>
           /\ cmd'.pc = "loop" /\ cmd'.res = "none"
           /\ cmd'.todo = Tail(cmd.todo)
           /\ cmd'.out = cmd.out \o <<EvA("warn", <<Head(cmd.todo).version>>)>>
           /\ q' = q /\ installs_dir' = installs_dir

\* C20 as stated: not-installed tool-versions are skipped, and the command
\* ends successfully, after reshim and the symlink rebuild, when every
\* installed tool-version uninstalls without error
C20_UninstallSkipsNotInstalled ==
    /\ [][SkipsNotInstalled]_vars
    /\ [](cmd.pc = "done" /\ ~CmdHas("error") =>
              /\ cmd.res = "ok"
              /\ CmdHasFor("done", "reshim") /\ CmdHasFor("done", "rebuild"))

\* C20: not-installed tool-versions are skipped with a warning and without
\* an error, the loop goes on, and when every installed tool-version
\* uninstalls without error the command goes on to the toolset build,
\* reshim and the symlink rebuild; it ends successfully when these three
\* succeed, and with the error of the first that fails otherwise
C20_UninstallSkipsThenFinishes ==
    /\ [][SkipsNotInstalled]_vars
    /\ [](cmd.pc = "done" /\ ~CmdHas("error") =>
              /\ CmdHas("failed") \/
                    /\ cmd.res = "ok"
                    /\ CmdHasFor("done", "reshim") /\ CmdHasFor("done", "rebuild")
              /\ CmdHas("failed") => cmd.res \in {"build", "reshim", "rebuild"})

\* 0.9.0 was skipped, 1.0.0 was uninstalled after it, and the command ended
\* successfully
C20_Witness ==
    /\ cmd.pc = "done" /\ cmd.res = "ok"
    /\ cmd.out = <<EvA("warn", <<"0.9.0">>), EvA("uninstalled", <<"1.0.0">>),
                   EvA("done", <<"build">>), EvA("done", <<"reshim">>),
                   EvA("done", <<"rebuild">>)>>
    /\ q.op = "uninstall_version" /\ q.calls = 1


\* the tool-version script_man_for_tv was called with
Composing(request) == q.op = "script_man_for_tv" /\ q.arg[1] = request
ComposedFor(requests) ==
    q.op = "script_man_for_tv" /\ q.arg[1] \in requests /\ q.res = "ok"
EnvIs(name, value) == EnvGet(q.val, Var(name)) = Some(<<value>>)
SameAs(alias, name) ==
    EnvGet(q.val, Var(alias)) # None /\ EnvGet(q.val, Var(alias)) = EnvGet(q.val, Var(name))

\* C21: the environment composed for a tool-version that is not System has
\* RTX_INSTALL_TYPE version for Version and Prefix, ref for Ref, path for
\* Path, sub for Sub; RTX_INSTALL_VERSION is the bare ref for Ref and the
\* resolved version otherwise; each ASDF_* alias equals its RTX_* variable,
\* whatever the tool options and plugin-wide variables are; composing for
\* System panics and yields no environment
C21_InstallTypeAndVersion ==
    /\ q.op = "script_man_for_tv" =>
           q.res = IF q.arg[1] = "System" THEN "panic" ELSE "ok"
    /\ Composing("System") => q.val = <<>>
    /\ ComposedFor({"Version", "Prefix"}) => EnvIs("RTX_INSTALL_TYPE", "version")
    /\ ComposedFor({"Ref"}) => EnvIs("RTX_INSTALL_TYPE", "ref")
    /\ ComposedFor({"Path"}) => EnvIs("RTX_INSTALL_TYPE", "path")
    /\ ComposedFor({"Sub"}) => EnvIs("RTX_INSTALL_TYPE", "sub")
    /\ ComposedFor({"Ref"}) => EnvIs("RTX_INSTALL_VERSION", q.arg[2])
    /\ ComposedFor({"Version", "Prefix", "Path", "Sub"}) =>
           EnvIs("RTX_INSTALL_VERSION", q.arg[3])
    /\ ComposedFor({"Version", "Prefix", "Ref", "Path", "Sub"}) =>
           /\ SameAs("ASDF_INSTALL_PATH", "RTX_INSTALL_PATH")
           /\ SameAs("ASDF_DOWNLOAD_PATH", "RTX_DOWNLOAD_PATH")
           /\ SameAs("ASDF_INSTALL_TYPE", "RTX_INSTALL_TYPE")
           /\ SameAs("ASDF_INSTALL_VERSION", "RTX_INSTALL_VERSION")

\* composed for a Ref request whose options have the key install_type
C21_Witness ==
    /\ ComposedFor({"Ref"})
    /\ EnvGet(q.val, Var("RTX_TOOL_OPTS__") \o to_uppercase(<<"i", "n", "s", "t", "a", "l", "l", "_", "t", "y", "p", "e">>)) = Some(<<"x">>)
    /\ EnvIs("RTX_INSTALL_VERSION", "main")


\* the contexts of an error that name the plugin
PluginContexts(chain) == {i \in 1..Len(chain) : chain[i][1] = "plugin"}
\* the query ran its script and the script exited with a failure
FailedQuery(name, script) ==
    Calls(name) /\ QRan(q'.log, script) /\ q'.res = "ScriptFailed"
FailureNotCached(name, script, c) ==
    /\ FailedQuery(name, script) =>
           /\ Cardinality(PluginContexts(q'.val)) = 1
           /\ q'.val[Len(q'.val)] = <<"script", script>>
           /\ cache_dir' = cache_dir /\ cache_meta' = cache_meta
    /\ q.op = name /\ q.res = "ScriptFailed" /\ Calls(name) /\ script_exists(script) =>
           QRan(q'.log, script) /\ ~Hit(c)

\* C24: a cached query whose script exits with a failure returns an error
\* wrapped exactly once with the plugin name and stores nothing in the
\* cache; the next call runs the script again
C24_FailureNotCached ==
    [][/\ FailureNotCached("list_remote_versions", "list-all", "remote_versions")
       /\ FailureNotCached("latest_stable_version", "latest-stable", "latest_stable")
       /\ FailureNotCached("get_aliases", "list-aliases", "aliases")
       /\ FailureNotCached("legacy_filenames", "list-legacy-filenames",
                           "legacy_filenames")]_vars

\* list-all failed twice in a row and there is still no cache file
C24_Witness ==
    /\ q.op = "list_remote_versions" /\ q.calls = 2 /\ q.res = "ScriptFailed"
    /\ q.val = << <<"plugin", "name">>, <<"script", "list-all">> >>
    /\ "remote_versions" \notin cache_dir


\* the contexts of an error that name the script
ScriptContexts(chain, script) == {i \in 1..Len(chain) : chain[i] = <<"script", script>>}
ListAllRunning == q.op = "list_remote_versions" /\ q.res = "running"
ListAllOverdue ==
    ListAllRunning /\ now - q.log[Len(q.log)].c >= ListAllTimeout

C23_LockReleased ==
    /\ [](\A t \in Threads : pc[t] = "idle" => lock # t)
    /\ \A t \in Threads : (pc[t] = "lock") ~> (lock = t)

\* a call failed inside install, the lock is free and another call waits
\* for it
C23_Witness ==
    \E t \in Threads, u \in Threads :
        /\ pc[t] = "idle" /\ res[t] \in {"GitFailure", "ScriptFailed", "NoRepoUrl"}
        /\ pc[u] = "lock" /\ lock = 0


\* C26: when the threads call ensure_installed with force = false on a
\* plugin that is not installed, the thread that gets the lock second finds
\* the plugin installed and neither uninstalls nor clones it again:
\* plugin_path, once a thread has cloned it, is not removed by a step of
\* another
C26_ClonedOnce ==
    [][(\A u \in Threads : ~force[u] /\ ~force'[u]) =>
           \A t \in Threads :
               Steps(t) /\ plugin_path.exists =>
                   plugin_path'.exists /\ pc'[t] \notin {"uninstall", "rmdir", "clone"}]_vars


\* the command has ended with the failure of a tool-version: the error is
\* the last event and is about the first tool-version still in the list,
\* which stays installed like those after it; nothing was done after it
AbortedAtFirstFailure ==
    /\ cmd.pc = "done" /\ cmd.res \notin {"ok", "none"}
    /\ cmd.todo # <<>>
    /\ cmd.out[Len(cmd.out)] = EvA("error", <<Head(cmd.todo).version>>)
    /\ \A i \in 1..(Len(cmd.out) - 1) : cmd.out[i].k \in {"warn", "uninstalled"}
    /\ is_version_installed(Head(cmd.todo))
    /\ \A i \in 1..Len(cmd.todo) : ~CmdHasFor("uninstalled", cmd.todo[i].version)

\* a step of the loop is about the first tool-version of the list that is
\* left, and only a successful step goes on to the next
InListOrder ==
    cmd.pc = "loop" /\ cmd' # cmd /\ cmd.todo # <<>> =>
        \E k \in {"warn", "uninstalled", "error"} :
            /\ cmd'.out = cmd.out \o <<EvA(k, <<Head(cmd.todo).version>>)>>
            /\ k = "error" => cmd'.todo = cmd.todo /\ cmd'.pc = "done"
            /\ k # "error" => cmd'.todo = Tail(cmd.todo) /\ cmd'.pc = "loop"

\* uninstall_version has returned an error for the tool-version: the
\* command ends with that error, marked on the tool-version, and no
\* directory is removed
FailureAborts ==
    cmd.pc = "loop" /\ q.calls = cmd.calls + 1 /\ q.res # "ok" /\ cmd' # cmd =>
        /\ cmd'.pc = "done" /\ cmd'.res = q.res
        /\ cmd'.out = cmd.out \o <<EvA("error", <<Head(cmd.todo).version>>)>>
        /\ installs_dir' = installs_dir

\* C27: the uninstall command takes the tool-versions one after the other
\* in list order, and the first failure of uninstall_version ends it: the
\* tool-version is marked with the error, the command returns the error
\* about that tool-version, no later tool-version is uninstalled, the
\* toolset build, reshim and the symlink rebuild are not run, and the
\* tool-versions uninstalled before it stay uninstalled
C27_UninstallAbortsOnFirstFailure ==
    /\ [][InListOrder /\ FailureAborts]_vars
    /\ [](CmdHas("error") => AbortedAtFirstFailure)
    /\ [](cmd.pc # "idle" /\ ~cmd.args[1] =>
              \A v \in {"1.0.0", "0.9.0"} :
                  CmdHasFor("uninstalled", v) => v \notin installs_dir)
    /\ [][cmd.pc = "done" => UNCHANGED <<cmd, installs_dir>>]_vars

\* 1.0.0 was uninstalled, then bin/uninstall failed for 0.9.0: the command
\* ended with the error, 0.9.0 is installed and 1.0.0 is not
C27_Witness ==
    /\ cmd.pc = "done" /\ cmd.res = "ScriptFailed"
    /\ cmd.out = <<EvA("uninstalled", <<"1.0.0">>), EvA("error", <<"0.9.0">>)>>
    /\ installs_dir = {"0.9.0"}


\* the value a thread's call returned
ReturnedValue(t) == log[t][Len(log[t])].a

\* the cache is asked and the key has a value: the call returns that value
\* and no fetch is run
LaterCallsHit(t) ==
    pc[t] = "cache" /\ Initialized(MemoKind(op[t]), call_tv[t]) /\ pc'[t] # pc[t] =>
        /\ Returns(t, "ok")
        /\ \E e \in memo[MemoKind(op[t])] :
               e.tv = call_tv[t] /\ ReturnedValue(t)' = e.val
        /\ \A i \in 1..Len(log'[t]) : log'[t][i].k \notin {"run", "shell"}

\* a fetch is started only for a key that has no value and that no other
\* thread is fetching
FetchStartsOnce(t) ==
    pc[t] # "fetch" /\ pc'[t] = "fetch" =>
        /\ ~Initialized(MemoKind(op[t]), call_tv[t])
        /\ Initializing(MemoKind(op[t]), call_tv[t]) = {}

\* the value of a successful fetch is returned and is the value of the key
\* from then on
FirstSuccessIsKept(t) ==
    pc[t] = "fetch" /\ Returns(t, "ok") =>
        [tv |-> call_tv[t], val |-> ReturnedValue(t)'] \in memo'[MemoKind(op[t])]

\* C25: list_bin_paths and exec_env are memoized per tool-version: once a
\* fetch for a tool-version has succeeded no later call of any thread
\* fetches again, and every later call returns the value of that fetch
C25_MemoizedPerToolVersion ==
    /\ [][\A t \in Threads :
              LaterCallsHit(t) /\ FetchStartsOnce(t) /\ FirstSuccessIsKept(t)]_vars
    /\ [][\A kind \in {"bin_paths", "exec_env"} : memo[kind] \subseteq memo'[kind]]_vars
    /\ [](\A kind \in {"bin_paths", "exec_env"} :
              \A e1 \in memo[kind], e2 \in memo[kind] : e1.tv = e2.tv => e1 = e2)

\* one thread ran bin/list-bin-paths for a tool-version, and the call of
\* another thread for the same tool-version got that value from the cache
C25_Witness ==
    \E t \in Threads, u \in Threads :
        /\ t # u
        /\ op[t] = "list_bin_paths" /\ op[u] = "list_bin_paths"
        /\ call_tv[t] = call_tv[u] /\ call_tv[t].request = "Version"
        /\ pc[t] = "idle" /\ res[t] = "ok" /\ pc[u] = "idle" /\ res[u] = "ok"
        /\ HasKind(t, "run") /\ HasKind(u, "memo_hit")
        /\ ReturnedValue(t) = ReturnedValue(u)

====
